---------------------------- MODULE Spec2Model ----------------------------
(***************************************************************************)
(* A model of the crdt-kit replicated data types: the last-writer-wins     *)
(* register, the replicated growable array (Rga), the text CRDT, the       *)
(* observed-remove set and the multi-value register.  Every replica is     *)
(* owned by one actor; replicas exchange whole states (merge) or deltas.   *)
(*                                                                         *)
(* Actor ids are strings in the source and are compared lexicographically  *)
(* (String's Ord).  The model names the actors 1, 2, 3: the number is the  *)
(* rank of the actor's id in that order, so  a < b  on the numbers is      *)
(* "a" < "b" on the strings.                                               *)
(***************************************************************************)
EXTENDS Integers, Sequences, FiniteSets, TLC

VARIABLES
    lww,        \* actor -> LWWRegister {actor, value, timestamp}
    rga,        \* actor -> Rga {actor, counter, nodes, tombstones, sequence}
    text,       \* actor -> TextCrdt {actor, counter, elements, version}
    ors,        \* actor -> ORSet {actor, counter, elements, tombstones}
    mv,         \* actor -> MVRegister {actor, version, entries}
    mvWrites,   \* history: every entry ever produced by set()
    tps,        \* replica -> TwoPSet {added, removed}
    tpsRemoved, \* history: replica -> elements whose removal it has observed
    gc,         \* actor -> GCounter {actor, counts}
    gcTotal,    \* history: total of all increments performed
    pn,         \* actor -> PNCounter {increments, decrements}
    hlc,        \* HybridClock {node_id, last}
    hlcLog,     \* history: the timestamps returned by now() and receive(), in order
    hlcPanicked, \* a call has panicked on arithmetic overflow (overflow checks on)
    dbCfg,      \* CrdtDb {migration_engine {current_version, steps}, write_back_on_read}
    dbStore,    \* backend bytes under the one (namespace, key): <<>> none, <<bytes>> some
    dbLast,     \* the last facade call: its inputs, the bytes it found and what it returned
    memStore,   \* MemoryStore {state, events, snapshots, next_sequence}
    redbStore,  \* RedbStore tables {state, events, snapshots, meta}, byte key -> byte value
    sqliteStore, \* SqliteStore tables {state, events, snapshots} and the AUTOINCREMENT counter
    evLog,      \* entity -> backend -> the sequence its last append returned, 0 for none
    evLast,     \* the last store call: its name, its entity and its sequence argument
    apStore,    \* one durable store of each kind shared by the appenders: tables, write transaction, connection lock
    apProc,     \* appender -> where it is in append_event and its locals
    apLog,      \* backend -> the (appender, sequence) pairs returned, in commit order
    cc,         \* concurrent compactions over one sqlite file: each caller's position
    wbFacade    \* loads and saves of two facades over one backend: each facade's position

lwwVars  == <<lww>>
rgaVars  == <<rga>>
textVars == <<text>>
orsVars  == <<ors>>
mvVars   == <<mv, mvWrites>>
tpsVars  == <<tps, tpsRemoved>>
gcVars   == <<gc, gcTotal>>
pnVars   == <<pn>>
hlcVars  == <<hlc, hlcLog, hlcPanicked>>
dbVars   == <<dbCfg, dbStore, dbLast>>
evVars   == <<memStore, redbStore, sqliteStore, evLog, evLast>>
apVars   == <<apStore, apProc, apLog>>
ccVars   == <<cc>>
wbVars   == <<wbFacade>>
vars     == <<lww, rga, text, ors, mv, mvWrites, tps, tpsRemoved, gc, gcTotal, pn, hlc, hlcLog, hlcPanicked, dbCfg, dbStore, dbLast, memStore, redbStore, sqliteStore, evLog, evLast, apStore, apProc, apLog, cc, wbFacade>>

(***************************************************************************)
(* Actors and common helpers.                                              *)
(***************************************************************************)
Actors == {1, 2, 3}

Max2(a, b) == IF a >= b THEN a ELSE b

\* Ord for (String, u64): the actor first, then the counter.
IdLess(x, y) == x[1] < y[1] \/ (x[1] = y[1] /\ x[2] < y[2])

(***************************************************************************)
(* LWW-Register  (src/src/lww_register.rs)                                 *)
(***************************************************************************)
LwwMaxTs == 2
LwwTimestamps == 0..LwwMaxTs
LwwValues == {"x", "y", "z"}

\* LWWRegister::with_timestamp
LWW_with_timestamp(actor, value, timestamp) ==
    [actor |-> actor, value |-> value, timestamp |-> timestamp]

\* LWWRegister::set_with_timestamp
LWW_set_with_timestamp(self, value, timestamp) ==
    IF timestamp >= self.timestamp
    THEN [self EXCEPT !.value = value, !.timestamp = timestamp]
    ELSE self

\* Faulty variant of LWWRegister::merge without the tie-break on the actor.
LWW_merge_no_tiebreak(self, other) ==
    IF other.timestamp > self.timestamp
    THEN [self EXCEPT !.value = other.value, !.timestamp = other.timestamp]
    ELSE self

\* <LWWRegister as Crdt>::merge : the actor field is never assigned.
LWW_merge(self, other) ==
    IF \/ other.timestamp > self.timestamp
       \/ (other.timestamp = self.timestamp /\ other.actor > self.actor)
    THEN [self EXCEPT !.value = other.value, !.timestamp = other.timestamp]
    ELSE self

LWW_value(self) == self.value

\* Three registers built by with_timestamp, one per actor, any value and timestamp.
LwwInit ==
    \E vf \in [Actors -> LwwValues], tf \in [Actors -> LwwTimestamps] :
        lww = [a \in Actors |-> LWW_with_timestamp(a, vf[a], tf[a])]

\* The registers as they stand while another data type is exercised.
LwwIdle == lww = [a \in Actors |-> LWW_with_timestamp(a, "x", 0)]

(***************************************************************************)
(* Rga  (src/crates/crdt-kit/src/rga.rs)                                   *)
(***************************************************************************)
RgaMaxInserts == 3
RgaMaxRemoved == 1
RgaValues == {"x", "y"}

\* Option<NodeId>::None, the parent of a head insert; no node has counter 0.
NoId == <<0, 0>>
\* Option<&T>::None, the result of get() past the end.
NoValue == "None"

EmptyMap == [k \in {} |-> k]

\* Rga::new
Rga_new(actor) ==
    [actor |-> actor, counter |-> 0, nodes |-> EmptyMap, tombstones |-> {},
     sequence |-> <<>>]

\* Rga::visible_sequence
Rga_visible_sequence(self) ==
    SelectSeq(self.sequence, LAMBDA id : id \notin self.tombstones)

Reverse(s) == [i \in 1..Len(s) |-> s[Len(s) + 1 - i]]

\* siblings.sort_by(|a, b| b.cmp(a)) : the ids of S, the greatest first.
RECURSIVE SortDesc(_)
SortDesc(S) ==
    IF S = {} THEN <<>>
    ELSE LET m == CHOOSE x \in S : \A y \in S : y = x \/ IdLess(y, x)
         IN  <<m>> \o SortDesc(S \ {m})

\* children.get(parent), after the sort of each sibling group.
Rga_children(nodes, parent) ==
    SortDesc({id \in DOMAIN nodes : nodes[id].parent = parent})

\* The while-let loop of rebuild_sequence: pop, emit, push the kids reversed.
RECURSIVE Rga_dfs(_, _, _)
Rga_dfs(nodes, stack, sequence) ==
    IF stack = <<>> THEN sequence
    ELSE LET id   == stack[Len(stack)]
             rest == SubSeq(stack, 1, Len(stack) - 1)
         IN  Rga_dfs(nodes, rest \o Reverse(Rga_children(nodes, id)),
                     Append(sequence, id))

\* Rga::rebuild_sequence
Rga_rebuild_sequence(self) ==
    [self EXCEPT !.sequence =
        Rga_dfs(self.nodes, Reverse(Rga_children(self.nodes, NoId)), <<>>)]

\* Rga::insert_at ; index is 0-based, index <= len is asserted by the caller.
Rga_insert_at(self, index, value) ==
    LET visible == Rga_visible_sequence(self)
        parent  == IF index = 0 THEN NoId ELSE visible[index]
        counter == self.counter + 1
        id      == <<self.actor, counter>>
        nodes   == [k \in DOMAIN self.nodes \cup {id} |->
                       IF k = id THEN [value |-> value, parent |-> parent]
                       ELSE self.nodes[k]]
    IN  Rga_rebuild_sequence([self EXCEPT !.counter = counter, !.nodes = nodes])

\* Rga::remove ; returns None and changes nothing when index >= len.
Rga_remove(self, index) ==
    LET visible == Rga_visible_sequence(self)
    IN  IF index >= Len(visible) THEN self
        ELSE Rga_rebuild_sequence(
                [self EXCEPT !.tombstones = @ \cup {visible[index + 1]}])

\* Rga::get
Rga_get(self, index) ==
    LET visible == Rga_visible_sequence(self)
    IN  IF index < Len(visible) /\ visible[index + 1] \in DOMAIN self.nodes
        THEN self.nodes[visible[index + 1]].value
        ELSE NoValue

\* Rga::len
Rga_len(self) == Len(Rga_visible_sequence(self))

\* Rga::to_vec
Rga_to_vec(self) ==
    LET visible == Rga_visible_sequence(self)
    IN  [i \in 1..Len(visible) |-> self.nodes[visible[i]].value]

\* Faulty variant of Rga::merge that unions the nodes and tombstones but
\* leaves the cached sequence as it was (no rebuild_sequence).
Rga_merge_stale_sequence(self, other) ==
    [self EXCEPT !.nodes = [k \in DOMAIN self.nodes \cup DOMAIN other.nodes |->
                              IF k \in DOMAIN self.nodes THEN self.nodes[k] ELSE other.nodes[k]],
                 !.tombstones = @ \cup other.tombstones,
                 !.counter = Max2(@, other.counter)]

\* Faulty variant of Rga::merge that imports the nodes of the other replica
\* without its tombstones.
Rga_merge_without_tombstones(self, other) ==
    LET nodes == [k \in DOMAIN self.nodes \cup DOMAIN other.nodes |->
                     IF k \in DOMAIN self.nodes THEN self.nodes[k] ELSE other.nodes[k]]
    IN  Rga_rebuild_sequence(
            [self EXCEPT !.nodes = nodes,
                         !.counter = Max2(@, other.counter)])

\* Faulty variant of Rga::merge that keeps its own counter.
Rga_merge_keep_counter(self, other) ==
    LET nodes == [k \in DOMAIN self.nodes \cup DOMAIN other.nodes |->
                     IF k \in DOMAIN self.nodes THEN self.nodes[k] ELSE other.nodes[k]]
    IN  Rga_rebuild_sequence(
            [self EXCEPT !.nodes = nodes,
                         !.tombstones = @ \cup other.tombstones])

\* <Rga as Crdt>::merge
Rga_merge(self, other) ==
    LET nodes == [k \in DOMAIN self.nodes \cup DOMAIN other.nodes |->
                     IF k \in DOMAIN self.nodes THEN self.nodes[k] ELSE other.nodes[k]]
    IN  Rga_rebuild_sequence(
            [self EXCEPT !.nodes = nodes,
                         !.tombstones = @ \cup other.tombstones,
                         !.counter = Max2(@, other.counter)])

RgaInit == rga = [a \in Actors |-> Rga_new(a)]

(***************************************************************************)
(* TextCrdt  (src/crates/crdt-kit/src/text.rs)                             *)
(* Raw and visible indices are 0-based as in the source; elements[i + 1]   *)
(* is the source's elements[i].  `version` is a total map here: an actor   *)
(* absent from the BTreeMap reads 0, which is what or_insert(0) and the    *)
(* max over its values make of it.                                         *)
(***************************************************************************)
TextMaxInserts == 3
TextMaxRemoved == 1
TextChars == {"x", "y"}

\* TextCrdt::new
Text_new(actor) ==
    [actor |-> actor, counter |-> 0, elements |-> <<>>,
     version |-> [a \in Actors |-> 0]]

\* TextCrdt::fork
Text_fork(self, new_actor) == [self EXCEPT !.actor = new_actor]

\* TextCrdt::len
Text_len(self) ==
    Cardinality({i \in 1..Len(self.elements) : ~self.elements[i].deleted})

\* TextCrdt::visible_to_raw : the raw index of the visible-th visible element.
Text_visible_to_raw(self, visible) ==
    CHOOSE raw \in 0..(Len(self.elements) - 1) :
        /\ ~self.elements[raw + 1].deleted
        /\ Cardinality({j \in 1..raw : ~self.elements[j].deleted}) = visible

\* TextCrdt::raw_index_for_insert
Text_raw_index_for_insert(self, visible_index) ==
    IF visible_index = 0 THEN 0
    ELSE IF visible_index >= Text_len(self) THEN Len(self.elements)
    ELSE Text_visible_to_raw(self, visible_index)

\* Vec::insert(raw, e)
SeqInsert(s, raw, e) == SubSeq(s, 1, raw) \o <<e>> \o SubSeq(s, raw + 1, Len(s))

\* TextCrdt::insert ; index <= len is asserted by the caller.
Text_insert(self, index, ch) ==
    LET counter == self.counter + 1
        bumped  == [self EXCEPT !.counter = counter,
                                !.version[self.actor] = Max2(@, counter)]
        elem    == [id |-> <<self.actor, counter>>, value |-> ch, deleted |-> FALSE]
        raw     == Text_raw_index_for_insert(bumped, index)
    IN  [bumped EXCEPT !.elements = SeqInsert(@, raw, elem)]

\* TextCrdt::remove ; index < len is asserted by the caller.
Text_remove(self, index) ==
    [self EXCEPT !.elements[Text_visible_to_raw(self, index) + 1].deleted = TRUE]

\* TextCrdt::find_by_id : the raw index, or -1 for None.
Text_find_by_id(self, id) ==
    IF \E i \in 1..Len(self.elements) : self.elements[i].id = id
    THEN (CHOOSE i \in 1..Len(self.elements) :
              /\ self.elements[i].id = id
              /\ \A j \in 1..(i - 1) : self.elements[j].id # id) - 1
    ELSE -1

\* The tuple order on (counter, actor) of find_insert_position.
KeyLess(x, y) == x[2] < y[2] \/ (x[2] = y[2] /\ x[1] < y[1])

\* Faulty variant of find_insert_position that places the element directly
\* after its predecessor without scanning past concurrent siblings.
Text_find_insert_position_no_scan(self, elem, after_raw) == after_raw + 1

\* TextCrdt::find_insert_position ; after_raw = -1 is None (start at 0).
Text_find_insert_position(self, elem, after_raw) ==
    LET start == after_raw + 1
        hits  == {i \in start..(Len(self.elements) - 1) :
                     KeyLess(self.elements[i + 1].id, elem.id)}
    IN  IF hits = {} THEN Len(self.elements)
        ELSE CHOOSE i \in hits : \A j \in hits : i <= j

\* TextCrdt::find_predecessor_raw ; -1 is None.
Text_find_predecessor_raw(self, other, elem) ==
    LET other_pos == Text_find_by_id(other, elem.id)
        found     == {i \in 0..(other_pos - 1) :
                         Text_find_by_id(self, other.elements[i + 1].id) # -1}
    IN  IF other_pos <= 0 \/ found = {} THEN -1
        ELSE Text_find_by_id(self,
                 other.elements[(CHOOSE i \in found : \A j \in found : j <= i) + 1].id)

\* One iteration of the for loop of merge, on other.elements[k].
Text_integrate(self, other, k) ==
    LET other_elem == other.elements[k]
        raw        == Text_find_by_id(self, other_elem.id)
    IN  IF raw # -1
        THEN IF other_elem.deleted
             THEN [self EXCEPT !.elements[raw + 1].deleted = TRUE]
             ELSE self
        ELSE LET predecessor_raw == Text_find_predecessor_raw(self, other, other_elem)
                 pos == Text_find_insert_position(self, other_elem, predecessor_raw)
             IN  [self EXCEPT !.elements = SeqInsert(@, pos, other_elem)]

RECURSIVE Text_integrate_from(_, _, _)
Text_integrate_from(self, other, k) ==
    IF k > Len(other.elements) THEN self
    ELSE Text_integrate_from(Text_integrate(self, other, k), other, k + 1)

MaxOf(S) == CHOOSE m \in S : \A n \in S : n <= m

\* <TextCrdt as Crdt>::merge
Text_merge(self, other) ==
    LET integrated == Text_integrate_from(self, other, 1)
        version    == [a \in Actors |-> Max2(self.version[a], other.version[a])]
    IN  [integrated EXCEPT !.version = version,
                           !.counter = Max2(@, MaxOf({version[a] : a \in Actors}))]

\* <TextCrdt as Display>::fmt : the visible characters in order.
Text_to_string(self) ==
    LET vis == SelectSeq(self.elements, LAMBDA e : ~e.deleted)
    IN  [i \in 1..Len(vis) |-> vis[i].value]

TextInit == text = [a \in Actors |-> Text_new(a)]

(***************************************************************************)
(* OR-Set  (src/src/or_set.rs)                                             *)
(* `elements` is a total map here: a value absent from the BTreeMap reads  *)
(* the empty tag set.  The source never leaves an empty tag set behind     *)
(* (remove drops the key, merge and apply_delta end with retain), and      *)
(* contains() reads an empty set as absent.                                *)
(***************************************************************************)
OrsMaxInserts == 2
OrsValues == {"x", "y"}

\* ORSet::new
ORSet_new(actor) ==
    [actor |-> actor, counter |-> 0, elements |-> [v \in OrsValues |-> {}],
     tombstones |-> {}]

\* ORSet::insert
ORSet_insert(self, value) ==
    LET counter == self.counter + 1
        tag     == <<self.actor, counter>>
    IN  [self EXCEPT !.counter = counter, !.elements[value] = @ \cup {tag}]

\* ORSet::remove : the state after the call.
ORSet_remove(self, value) ==
    IF self.elements[value] # {}
    THEN [self EXCEPT !.tombstones = @ \cup self.elements[value],
                      !.elements[value] = {}]
    ELSE self

\* ORSet::contains
ORSet_contains(self, value) == self.elements[value] # {}

\* ORSet::iter, collected into a set.
ORSet_members(self) == {v \in OrsValues : ORSet_contains(self, v)}

\* Faulty variant of ORSet::merge that only takes tags for elements the
\* receiver already has a key for.
ORSet_merge_known_only(self, other) ==
    LET added == [v \in OrsValues |->
                     IF self.elements[v] = {} THEN {}
                     ELSE self.elements[v] \cup (other.elements[v] \ self.tombstones)]
        swept == [v \in OrsValues |-> added[v] \ other.tombstones]
    IN  [self EXCEPT !.elements = swept,
                     !.tombstones = @ \cup other.tombstones,
                     !.counter = Max2(@, other.counter)]

\* Faulty variant of ORSet::merge that records the other replica's tombstones
\* without removing the tombstoned tags from its own elements.
ORSet_merge_no_sweep(self, other) ==
    [self EXCEPT !.elements = [v \in OrsValues |->
                                 self.elements[v] \cup (other.elements[v] \ self.tombstones)],
                 !.tombstones = @ \cup other.tombstones,
                 !.counter = Max2(@, other.counter)]

\* <ORSet as Crdt>::merge
ORSet_merge(self, other) ==
    LET added == [v \in OrsValues |->
                     self.elements[v] \cup (other.elements[v] \ self.tombstones)]
        swept == [v \in OrsValues |-> added[v] \ other.tombstones]
    IN  [self EXCEPT !.elements = swept,
                     !.tombstones = @ \cup other.tombstones,
                     !.counter = Max2(@, other.counter)]

\* Faulty variant of delta that carries the additions but no tombstones.
ORSet_delta_no_tombstones(self, other) ==
    [additions  |-> [v \in OrsValues |->
                        {tag \in self.elements[v] :
                            tag \notin other.elements[v] /\ tag \notin other.tombstones}],
     tombstones |-> {}]

\* <ORSet as DeltaCrdt>::delta
ORSet_delta(self, other) ==
    [additions  |-> [v \in OrsValues |->
                        {tag \in self.elements[v] :
                            tag \notin other.elements[v] /\ tag \notin other.tombstones}],
     tombstones |-> self.tombstones \ other.tombstones]

\* Faulty variant of apply_delta that applies the tombstones before the
\* additions.
ORSet_apply_delta_tombstones_first(self, delta) ==
    LET swept == [v \in OrsValues |-> self.elements[v] \ delta.tombstones]
        added == [v \in OrsValues |->
                     swept[v] \cup (delta.additions[v] \ self.tombstones)]
    IN  [self EXCEPT !.elements = added,
                     !.tombstones = @ \cup delta.tombstones]

\* <ORSet as DeltaCrdt>::apply_delta
ORSet_apply_delta(self, delta) ==
    LET added == [v \in OrsValues |->
                     self.elements[v] \cup (delta.additions[v] \ self.tombstones)]
        swept == [v \in OrsValues |-> added[v] \ delta.tombstones]
    IN  [self EXCEPT !.elements = swept,
                     !.tombstones = @ \cup delta.tombstones]

OrsInit == ors = [a \in Actors |-> ORSet_new(a)]

(***************************************************************************)
(* MV-Register  (src/src/mv_register.rs)                                   *)
(* A version vector is a total map here: an actor absent from the BTreeMap *)
(* reads 0 (unwrap_or(0)); the source never stores a 0.                    *)
(***************************************************************************)
MvMaxWrites == 3
MvValues == {"v", "w"}

ZeroVV == [a \in Actors |-> 0]

\* MVRegister::new
MV_new(actor) == [actor |-> actor, version |-> ZeroVV, entries |-> <<>>]

\* MVRegister::set
MV_set(self, value) ==
    LET version == [self.version EXCEPT ![self.actor] = @ + 1]
    IN  [self EXCEPT !.version = version,
                     !.entries = <<[value |-> value, vv |-> version]>>]

\* MVRegister::values : sorted and deduplicated, i.e. the set of values.
MV_values(self) == {self.entries[i].value : i \in 1..Len(self.entries)}

\* is_conflicted counting the values that values() returns
MV_is_conflicted_by_values(self) == Cardinality(MV_values(self)) > 1

\* MVRegister::is_conflicted
MV_is_conflicted(self) == Len(self.entries) > 1

\* dominates(a, b)
dominates(a, b) == \A actor \in Actors : ~(a[actor] < b[actor])

SeqHasVV(s, vv) == \E i \in 1..Len(s) : s[i].vv = vv

\* The second loop of merge: other's entries, skipping what new_entries has.
RECURSIVE MV_add_other(_, _, _, _)
MV_add_other(new_entries, entries, self_version, k) ==
    IF k > Len(entries) THEN new_entries
    ELSE MV_add_other(
            IF ~dominates(self_version, entries[k].vv) /\ ~SeqHasVV(new_entries, entries[k].vv)
            THEN Append(new_entries, entries[k]) ELSE new_entries,
            entries, self_version, k + 1)

\* Faulty variant of MVRegister::merge that drops every own entry the other
\* replica's version dominates, also when the other replica still holds it.
MV_merge_drop_seen(self, other) ==
    [self EXCEPT
        !.entries = MV_add_other(
                        SelectSeq(self.entries, LAMBDA e : ~dominates(other.version, e.vv)),
                        other.entries, self.version, 1),
        !.version = [a \in Actors |-> Max2(self.version[a], other.version[a])]]

\* Faulty variant of MVRegister::merge that keeps every own entry and adds
\* the other replica's entries it has not observed.
MV_merge_keep_all(self, other) ==
    [self EXCEPT
        !.entries = MV_add_other(self.entries, other.entries, self.version, 1),
        !.version = [a \in Actors |-> Max2(self.version[a], other.version[a])]]

\* Faulty variant of MVRegister::merge that adds every entry of the other
\* replica it does not hold, also those its own version already dominates.
MV_merge_add_all(self, other) ==
    [self EXCEPT
        !.entries = MV_add_other(
                        SelectSeq(self.entries,
                            LAMBDA e : ~dominates(other.version, e.vv)
                                         \/ SeqHasVV(other.entries, e.vv)),
                        other.entries, ZeroVV, 1),
        !.version = [a \in Actors |-> Max2(self.version[a], other.version[a])]]

\* <MVRegister as Crdt>::merge
MV_merge(self, other) ==
    LET self_version == self.version
        kept == SelectSeq(self.entries,
                    LAMBDA e : ~dominates(other.version, e.vv) \/ SeqHasVV(other.entries, e.vv))
    IN  [self EXCEPT
            !.entries = MV_add_other(kept, other.entries, self_version, 1),
            !.version = [a \in Actors |-> Max2(self.version[a], other.version[a])]]

MvInit == mv = [a \in Actors |-> MV_new(a)] /\ mvWrites = {}

(***************************************************************************)
(* 2P-Set  (src/src/twop_set.rs)                                           *)
(***************************************************************************)
TpsValues == {"x", "y"}

\* TwoPSet::new
TwoPSet_new == [added |-> {}, removed |-> {}]

\* TwoPSet::insert : refused once the value has been removed.
TwoPSet_insert(self, value) ==
    IF value \in self.removed THEN self
    ELSE [self EXCEPT !.added = @ \cup {value}]

\* TwoPSet::remove succeeds (returns true) when the value is added and not removed.
TwoPSet_remove_ok(self, value) == value \in self.added /\ value \notin self.removed

\* TwoPSet::remove
TwoPSet_remove(self, value) ==
    IF TwoPSet_remove_ok(self, value)
    THEN [self EXCEPT !.removed = @ \cup {value}]
    ELSE self

\* TwoPSet::contains
TwoPSet_contains(self, value) == value \in self.added /\ value \notin self.removed

\* Faulty variant of TwoPSet::merge that unions the additions only.
TwoPSet_merge_added_only(self, other) ==
    [self EXCEPT !.added = @ \cup other.added]

\* <TwoPSet as Crdt>::merge
TwoPSet_merge(self, other) ==
    [added |-> self.added \cup other.added, removed |-> self.removed \cup other.removed]

TpsInit ==
    /\ tps = [r \in Actors |-> TwoPSet_new]
    /\ tpsRemoved = [r \in Actors |-> {}]

(***************************************************************************)
(* G-Counter  (src/crates/crdt-kit/src/gcounter.rs) and                    *)
(* PN-Counter (src/src/pncounter.rs).  counts is a total map; 0 stands for *)
(* an absent entry (both read as 0 by value, merge and delta).             *)
(***************************************************************************)
GcMaxTotal == 4
GcSteps == {1, 2}
PnMaxOps == 3

RECURSIVE SumOver(_, _)
SumOver(f, S) ==
    IF S = {} THEN 0
    ELSE LET k == CHOOSE k \in S : TRUE IN f[k] + SumOver(f, S \ {k})

\* GCounter::new
GCounter_new(actor) == [actor |-> actor, counts |-> [a \in Actors |-> 0]]

\* GCounter::increment_by (increment is increment_by(1))
GCounter_increment_by(self, n) == [self EXCEPT !.counts[self.actor] = @ + n]

\* GCounter::value
GCounter_value(self) == SumOver(self.counts, Actors)

\* Faulty variant of GCounter::merge that adds the other replica's counts.
GCounter_merge_add(self, other) ==
    [self EXCEPT !.counts = [a \in Actors |-> self.counts[a] + other.counts[a]]]

\* <GCounter as Crdt>::merge
GCounter_merge(self, other) ==
    [self EXCEPT !.counts = [a \in Actors |-> Max2(self.counts[a], other.counts[a])]]

\* Faulty variant of delta that includes an entry only when the other replica
\* has none for that actor.
GCounter_delta_new_only(self, other) ==
    [counts |-> [a \in Actors |->
        IF other.counts[a] = 0 THEN self.counts[a] ELSE 0]]

\* <GCounter as DeltaCrdt>::delta ; 0 = no entry in the delta.
GCounter_delta(self, other) ==
    [counts |-> [a \in Actors |->
        IF self.counts[a] > other.counts[a] THEN self.counts[a] ELSE 0]]

\* <GCounter as DeltaCrdt>::apply_delta
GCounter_apply_delta(self, delta) ==
    [self EXCEPT !.counts = [a \in Actors |-> Max2(self.counts[a], delta.counts[a])]]

GcInit ==
    /\ gc = [a \in Actors |-> GCounter_new(a)]
    /\ gcTotal = 0

\* PNCounter::new
PNCounter_new(actor) ==
    [increments |-> GCounter_new(actor), decrements |-> GCounter_new(actor)]

\* PNCounter::increment
PNCounter_increment(self) ==
    [self EXCEPT !.increments = GCounter_increment_by(@, 1)]

\* PNCounter::decrement
PNCounter_decrement(self) ==
    [self EXCEPT !.decrements = GCounter_increment_by(@, 1)]

\* PNCounter::value
PNCounter_value(self) == GCounter_value(self.increments) - GCounter_value(self.decrements)

\* <PNCounter as Crdt>::merge
PNCounter_merge(self, other) ==
    [increments |-> GCounter_merge(self.increments, other.increments),
     decrements |-> GCounter_merge(self.decrements, other.decrements)]

\* <PNCounter as DeltaCrdt>::delta
PNCounter_delta(self, other) ==
    [increments |-> GCounter_delta(self.increments, other.increments),
     decrements |-> GCounter_delta(self.decrements, other.decrements)]

\* <PNCounter as DeltaCrdt>::apply_delta
PNCounter_apply_delta(self, delta) ==
    [increments |-> GCounter_apply_delta(self.increments, delta.increments),
     decrements |-> GCounter_apply_delta(self.decrements, delta.decrements)]

PnInit == pn = [a \in Actors |-> PNCounter_new(a)]

(***************************************************************************)
(* Hybrid logical clock  (src/crates/crdt-kit/src/clock.rs).  The physical *)
(* time source is an input of every call: it may advance, stand still or   *)
(* go backwards.  logical is a u16:  + 1  on 65535 panics when the build   *)
(* has overflow checks (the dev profile) and wraps to 0 when it has not    *)
(* (the release profile).                                                    *)
(***************************************************************************)
HlcMaxCalls == 3
HlcMaxTime == 2
U16Max == 65535

HlcTimes == 0..HlcMaxTime
HlcNode == 1
HlcRemotes ==
    [physical : 0..(HlcMaxTime + 1), logical : {0, 1, U16Max - 1, U16Max}, node_id : {0, 2}]

\* HybridTimestamp::zero
Hlc_zero == [physical |-> 0, logical |-> 0, node_id |-> 0]

\* Ord for HybridTimestamp : physical, then logical, then node_id.
TsLess(x, y) ==
    \/ x.physical < y.physical
    \/ x.physical = y.physical /\ x.logical < y.logical
    \/ x.physical = y.physical /\ x.logical = y.logical /\ x.node_id < y.node_id

\* u16 + 1 without overflow checks.
AddOneU16(x) == (x + 1) % (U16Max + 1)

\* HybridClock::with_time_source
Hlc_new(node_id) == [node_id |-> node_id, last |-> Hlc_zero]

\* HybridClock::now evaluates  self.last.logical + 1  on the maximal u16.
Hlc_now_overflows(self, pt) == pt <= self.last.physical /\ self.last.logical = U16Max

\* HybridClock::now ; the clock after the call, self.last is the value returned.
Hlc_now(self, pt) ==
    IF pt > self.last.physical
    THEN [self EXCEPT !.last = [physical |-> pt, logical |-> 0, node_id |-> self.node_id]]
    ELSE [self EXCEPT !.last = [physical |-> self.last.physical,
                                logical  |-> AddOneU16(self.last.logical),
                                node_id  |-> self.node_id]]

\* max_pt of HybridClock::receive
Hlc_max_pt(self, remote, pt) == Max2(Max2(pt, self.last.physical), remote.physical)

\* The operand of  + 1  in HybridClock::receive ; -1 when the branch taken is  0 .
Hlc_receive_operand(self, remote, pt) ==
    LET max_pt == Hlc_max_pt(self, remote, pt)
    IN  IF max_pt = self.last.physical /\ max_pt = remote.physical
        THEN Max2(self.last.logical, remote.logical)
        ELSE IF max_pt = self.last.physical THEN self.last.logical
        ELSE IF max_pt = remote.physical THEN remote.logical
        ELSE -1

\* HybridClock::receive evaluates  + 1  on the maximal u16.
Hlc_receive_overflows(self, remote, pt) == Hlc_receive_operand(self, remote, pt) = U16Max

\* HybridClock::receive ; the clock after the call, self.last is the value returned.
Hlc_receive(self, remote, pt) ==
    LET operand == Hlc_receive_operand(self, remote, pt)
    IN  [self EXCEPT !.last = [physical |-> Hlc_max_pt(self, remote, pt),
                               logical  |-> IF operand = -1 THEN 0 ELSE AddOneU16(operand),
                               node_id  |-> self.node_id]]

HlcInit ==
    /\ hlc = Hlc_new(HlcNode)
    /\ hlcLog = <<>>
    /\ hlcPanicked = FALSE

(***************************************************************************)
(* Version envelope (src/crates/crdt-migrate/src/envelope.rs), migration   *)
(* engine (src/crates/crdt-migrate/src/engine.rs) and the CrdtDb facade    *)
(* (src/crates/crdt-store/src/db.rs) over one (namespace, key).            *)
(*                                                                          *)
(* Bytes are sequences of numbers.  A value of a type whose schema version *)
(* is v has one datum and v - 1 optional fields added since version 1;     *)
(* postcard writes the datum and one 0 byte per absent option, and reads   *)
(* the fields it needs from the front, ignoring what is left over.         *)
(***************************************************************************)
DbMaxVersion == 3
DbMaxSteps == 2
MAGIC_BYTE == 207
ENVELOPE_HEADER_SIZE == 3
CrdtType_Custom == 255

DbVersions == 1..DbMaxVersion
DbData == {7, 9}
CrdtTypeBytes == (1..9) \cup {CrdtType_Custom}

NoBytes == <<>>
NoEnvelope == [version |-> 0, crdt_type |-> 0, payload |-> NoBytes]
NoValue_T == [datum |-> 0, version |-> 0]

\* postcard::to_allocvec of a value of schema version value.version
Serialize(value) == <<value.datum>> \o [i \in 1..(value.version - 1) |-> 0]

\* postcard::from_bytes as the type of schema version v
Deserialize(payload, v) ==
    IF Len(payload) >= v
    THEN [ok |-> TRUE, value |-> [datum |-> payload[1], version |-> v]]
    ELSE [ok |-> FALSE, value |-> NoValue_T]

\* VersionedEnvelope::new
Envelope_new(version, crdt_type, payload) ==
    [version |-> version, crdt_type |-> crdt_type, payload |-> payload]

\* VersionedEnvelope::to_bytes
Envelope_to_bytes(env) == <<MAGIC_BYTE, env.version, env.crdt_type>> \o env.payload

\* VersionedEnvelope::is_versioned
Envelope_is_versioned(data) == Len(data) > 0 /\ data[1] = MAGIC_BYTE

\* VersionedEnvelope::from_bytes
Envelope_from_bytes(data) ==
    IF Len(data) < ENVELOPE_HEADER_SIZE
    THEN [ok |-> FALSE, err |-> "TooShort", env |-> NoEnvelope]
    ELSE IF data[1] # MAGIC_BYTE
    THEN [ok |-> FALSE, err |-> "InvalidMagic", env |-> NoEnvelope]
    ELSE IF data[3] \notin CrdtTypeBytes
    THEN [ok |-> FALSE, err |-> "UnknownCrdtType", env |-> NoEnvelope]
    ELSE [ok |-> TRUE, err |-> "",
          env |-> [version |-> data[2], crdt_type |-> data[3],
                   payload |-> SubSeq(data, ENVELOPE_HEADER_SIZE + 1, Len(data))]]

\* The registered steps: source and target version, and whether migrate
\* returns an error.  A step that works reads its input as the source schema
\* and writes the value in the target schema (as the steps of the tests do).
\* The engine looks a step up only for a version below current_version, so
\* the sources stop below the highest version.
DbSteps == [source : 1..(DbMaxVersion - 1), target : DbVersions, fails : BOOLEAN]

\* MigrationStep::migrate
Step_migrate(step, data) ==
    IF step.fails \/ ~Deserialize(data, step.source).ok
    THEN [ok |-> FALSE, data |-> NoBytes]
    ELSE [ok |-> TRUE,
          data |-> Serialize([datum |-> data[1], version |-> step.target])]

\* MigrationEngine::new
Engine_new(current_version) == [current_version |-> current_version, steps |-> <<>>]

\* MigrationEngine::register : push, then a stable sort by source version.
Engine_register(engine, step) ==
    LET n == Len(engine.steps)
        before == Cardinality({i \in 1..n : engine.steps[i].source <= step.source})
    IN  [engine EXCEPT !.steps =
            SubSeq(engine.steps, 1, before) \o <<step>> \o SubSeq(engine.steps, before + 1, n)]

\* MigrationEngine::needs_migration
Engine_needs_migration(engine, data_version) == data_version # engine.current_version

\* self.steps.iter().find(|s| s.source_version() == version) ; 0 = None
Engine_find_step(engine, version) ==
    LET hits == {i \in 1..Len(engine.steps) : engine.steps[i].source = version}
    IN  IF hits = {} THEN 0 ELSE CHOOSE i \in hits : \A j \in hits : i <= j

\* What migrate_to_current returns: Ok(data) or Err(err), for GapInChain
\* with the missing version; kind "diverges" when the loop never ends.
\* applied lists the steps the loop ran, each with the version and the data
\* it was given.
EngineResult(kind, err, missing, data) ==
    [kind |-> kind, err |-> err, missing |-> missing, data |-> data, applied |-> <<>>]

RECURSIVE Engine_walk(_, _, _, _)

\* The loop taking a version without a step for the end of the chain
Engine_walk_ends_at_gap(engine, data, version, seen) ==
    IF ~(version < engine.current_version) THEN EngineResult("ok", "", 0, data)
    ELSE IF <<version, data>> \in seen THEN EngineResult("diverges", "", 0, NoBytes)
    ELSE LET i == Engine_find_step(engine, version)
         IN  IF i = 0 THEN EngineResult("ok", "", 0, data)
             ELSE LET out == Step_migrate(engine.steps[i], data)
                      ran == [step |-> engine.steps[i], version |-> version, data |-> data]
                  IN  IF ~out.ok THEN EngineResult("err", "StepFailed", 0, NoBytes)
                      ELSE [Engine_walk(engine, out.data, engine.steps[i].target,
                                        seen \cup {<<version, data>>})
                             EXCEPT !.applied = <<ran>> \o @]

\* The while loop of migrate_to_current.  seen holds the (version, data)
\* pairs of the iterations so far: meeting one again, the loop never ends.
Engine_walk(engine, data, version, seen) ==
    IF ~(version < engine.current_version) THEN EngineResult("ok", "", 0, data)
    ELSE IF <<version, data>> \in seen THEN EngineResult("diverges", "", 0, NoBytes)
    ELSE LET i == Engine_find_step(engine, version)
         IN  IF i = 0 THEN EngineResult("err", "GapInChain", version, NoBytes)
             ELSE LET out == Step_migrate(engine.steps[i], data)
                      ran == [step |-> engine.steps[i], version |-> version, data |-> data]
                  IN  IF ~out.ok THEN EngineResult("err", "StepFailed", 0, NoBytes)
                      ELSE [Engine_walk(engine, out.data, engine.steps[i].target,
                                        seen \cup {<<version, data>>})
                             EXCEPT !.applied = <<ran>> \o @]

\* validate_chain looking for a step at min_version alone
Engine_validate_chain_first_only(engine, min_version) ==
    min_version < engine.current_version => Engine_find_step(engine, min_version) # 0

\* MigrationEngine::validate_chain : TRUE for Ok(())
Engine_validate_chain(engine, min_version) ==
    \A version \in min_version..(engine.current_version - 1) :
        Engine_find_step(engine, version) # 0

\* MigrationEngine::migrate_to_current
Engine_migrate_to_current(engine, data, from_version) ==
    IF from_version = engine.current_version THEN EngineResult("ok", "", 0, data)
    ELSE IF from_version > engine.current_version
    THEN EngineResult("err", "FutureVersion", 0, NoBytes)
    ELSE Engine_walk(engine, data, from_version, {})


\* CrdtDb::builder(store, current_version), with CrdtDbConfig::default()
Db_builder(current_version) ==
    [migration_engine |-> Engine_new(current_version),
     write_back_on_read |-> TRUE,
     built |-> FALSE]

\* CrdtDbBuilder::register_migration
Db_register_migration(db, step) ==
    [db EXCEPT !.migration_engine = Engine_register(db.migration_engine, step)]

\* CrdtDbBuilder::migration_config
Db_migration_config(db, write_back) == [db EXCEPT !.write_back_on_read = write_back]

\* CrdtDbBuilder::build
Db_build(db) == [db EXCEPT !.built = TRUE]

\* StateStore::put ; a put that fails leaves what was stored.
Store_put(store, bytes, fails) == IF fails THEN store ELSE <<bytes>>

\* StateStore::delete
Store_delete(store, fails) == IF fails THEN store ELSE <<>>

\* What a facade call returns.  kind: "OkUnit", "OkNone", "OkSome", "Err",
\* or "Diverges" for a call that never returns; err: the DbError variant;
\* detail: the MigrationError or EnvelopeError inside it.
DbReturn(kind, err, detail, value) ==
    [kind |-> kind, err |-> err, detail |-> detail, value |-> value]

\* CrdtDb::save_ns::<T>, T::SCHEMA_VERSION = value.version
Db_save_ns(db, store, value, putFails) ==
    LET envelope == Envelope_new(value.version, CrdtType_Custom, Serialize(value))
    IN  [store |-> Store_put(store, Envelope_to_bytes(envelope), putFails),
         ret |-> IF putFails THEN DbReturn("Err", "Store", "", NoValue_T)
                 ELSE DbReturn("OkUnit", "", "", NoValue_T)]

\* The tail of load_ns: postcard::from_bytes(&payload) as T
Db_load_value(payload, schema_version) ==
    LET de == Deserialize(payload, schema_version)
    IN  IF de.ok THEN DbReturn("OkSome", "", "", de.value)
        ELSE DbReturn("Err", "Deserialize", "", NoValue_T)

\* A load that, when the engine fails, puts the envelope back under the
\* next version before it returns the error.
Db_migration_failed_partial(store, envelope, e) ==
    [store |-> <<Envelope_to_bytes([envelope EXCEPT !.version = envelope.version + 1])>>,
     ret |-> DbReturn("Err", "Migration", e, NoValue_T)]

\* load_ns, `.map_err(|e| DbError::Migration(e.to_string()))?` : the call
\* returns before anything is put.
Db_migration_failed(store, envelope, e) ==
    [store |-> store, ret |-> DbReturn("Err", "Migration", e, NoValue_T)]

\* A write-back that keeps the version byte that was stored.
Db_write_back_stored_version(store, schema_version, envelope, migrated, putFails) ==
    Store_put(store,
              Envelope_to_bytes(Envelope_new(envelope.version, envelope.crdt_type, migrated)),
              putFails)

\* load_ns, the write-back: the migrated payload in an envelope at
\* T::SCHEMA_VERSION with the CRDT type that was stored.
Db_write_back(store, schema_version, envelope, migrated, putFails) ==
    Store_put(store,
              Envelope_to_bytes(Envelope_new(schema_version, envelope.crdt_type, migrated)),
              putFails)

\* CrdtDb::load_ns::<T>, T::SCHEMA_VERSION = schema_version
Db_load_ns(db, store, schema_version, getFails, putFails) ==
    IF getFails THEN [store |-> store, ret |-> DbReturn("Err", "Store", "", NoValue_T)]
    ELSE IF store = <<>> THEN [store |-> store, ret |-> DbReturn("OkNone", "", "", NoValue_T)]
    ELSE LET raw == store[1] IN
    IF ~Envelope_is_versioned(raw)
    THEN [store |-> store, ret |-> Db_load_value(raw, schema_version)]
    ELSE LET parsed == Envelope_from_bytes(raw) IN
    IF ~parsed.ok
    THEN [store |-> store, ret |-> DbReturn("Err", "Envelope", parsed.err, NoValue_T)]
    ELSE LET envelope == parsed.env
             stored_version == envelope.version
         IN
    IF stored_version # schema_version
       /\ Engine_needs_migration(db.migration_engine, stored_version)
    THEN LET migrated == Engine_migrate_to_current(db.migration_engine,
                                                    envelope.payload, stored_version)
         IN  IF migrated.kind = "diverges"
             THEN [store |-> store, ret |-> DbReturn("Diverges", "", "", NoValue_T)]
             ELSE IF migrated.kind = "err"
             THEN Db_migration_failed(store, envelope, migrated.err)
             ELSE IF db.write_back_on_read
             THEN LET after == Db_write_back(store, schema_version, envelope,
                                             migrated.data, putFails)
                  IN  IF putFails
                      THEN [store |-> after,
                            ret |-> DbReturn("Err", "Store", "", NoValue_T)]
                      ELSE [store |-> after,
                            ret |-> Db_load_value(migrated.data, schema_version)]
             ELSE [store |-> store, ret |-> Db_load_value(migrated.data, schema_version)]
    ELSE [store |-> store, ret |-> Db_load_value(envelope.payload, schema_version)]

\* CrdtDb::delete_ns
Db_delete_ns(db, store, deleteFails) ==
    [store |-> Store_delete(store, deleteFails),
     ret |-> IF deleteFails THEN DbReturn("Err", "Store", "", NoValue_T)
             ELSE DbReturn("OkUnit", "", "", NoValue_T)]

\* Bytes put in the backend directly (CrdtDb::store_mut), by a program
\* without envelopes or a damaged write: a bare version-1 payload, a lone
\* magic byte, and a header with CRDT type byte 200.
DbRawWrites == {<<7>>, <<MAGIC_BYTE>>, <<MAGIC_BYTE, 1, 200>>}

\* dbLast before any call.  A load records its type's schema version, the
\* bytes in the backend and whether the backend refused its get and its put
\* (a put it may not have come to); the other calls
\* record their name and what they returned.
NoCall ==
    [op |-> "none", schema_version |-> 0, before |-> <<>>,
     getFails |-> FALSE, putFails |-> FALSE,
     ret |-> DbReturn("OkUnit", "", "", NoValue_T)]

DbInit ==
    /\ dbCfg \in {Db_builder(v) : v \in DbVersions}
    /\ dbStore = <<>>
    /\ dbLast = NoCall

\* The facade as it stands while another data type is exercised.
DbIdle ==
    /\ dbCfg = Db_builder(1)
    /\ dbStore = <<>>
    /\ dbLast = NoCall

(***************************************************************************)
(* Event log and snapshots: the EventStore backends                        *)
(* (src/crates/crdt-store/src/memory.rs, redb.rs, sqlite.rs) and           *)
(* CrdtDb::compact (src/crates/crdt-store/src/db.rs).                      *)
(*                                                                          *)
(* Strings and byte vectors are sequences of byte values; 0 is the NUL     *)
(* byte, which a Rust &str may hold.                                       *)
(***************************************************************************)
EvMaxAppends == 2

\* "a" ; "b", "b\0c", "b\0\0"
EvNamespaces == {<<97>>}
EvEntityIds == {<<98>>, <<98, 0, 99>>, <<98, 0, 0>>}
\* (namespace, entity_id)
EvKeys == EvNamespaces \X EvEntityIds
EvData == {<<7>>}
EvTimestamp == 5
EvNodeId == <<110>>
EvSequences == 0..(EvMaxAppends + 1)
\* save_snapshot(at_sequence) when called directly
EvSnapshotAt == {2}
EvSnapshotStates == {<<42>>}
EvSnapshotVersions == {1}
EvCompactStates == {<<43>>}

\* Lexicographic order of byte strings (Ord for [u8]).
RECURSIVE BytesLess(_, _)
BytesLess(x, y) ==
    IF y = <<>> THEN FALSE
    ELSE IF x = <<>> THEN TRUE
    ELSE IF x[1] # y[1] THEN x[1] < y[1]
    ELSE BytesLess(Tail(x), Tail(y))

BytesLeq(x, y) == x = y \/ BytesLess(x, y)

\* The members of a set of byte strings in ascending order (a table scan).
RECURSIVE BytesSorted(_)
BytesSorted(S) ==
    IF S = {} THEN <<>>
    ELSE LET least == CHOOSE x \in S : \A y \in S : BytesLeq(x, y)
         IN  <<least>> \o BytesSorted(S \ {least})

RECURSIVE Pow256(_)
Pow256(n) == IF n = 0 THEN 1 ELSE 256 * Pow256(n - 1)

\* u64::to_be_bytes / u16::to_be_bytes : w bytes, most significant first.
\* The numbers of the model are below 2^31, so the bytes above the fourth
\* from the right are 0.
ToBeBytes(n, w) ==
    [i \in 1..w |-> IF w - i > 3 THEN 0 ELSE (n \div Pow256(w - i)) % 256]

\* u64::from_be_bytes / u16::from_be_bytes
RECURSIVE FromBeBytes(_)
FromBeBytes(bytes) ==
    IF bytes = <<>> THEN 0
    ELSE bytes[Len(bytes)] + 256 * FromBeBytes(SubSeq(bytes, 1, Len(bytes) - 1))

\* u64::MAX.to_be_bytes()
U64MaxBytes == [i \in 1..8 |-> 255]

\* StoredEvent
StoredEvent(sequence, namespace, entity_id, data, timestamp, node_id) ==
    [sequence |-> sequence, entity_id |-> entity_id, namespace |-> namespace,
     data |-> data, timestamp |-> timestamp, node_id |-> node_id]

\* Snapshot ; NoSnapshot for None
Snapshot(state, at_sequence, version) ==
    [state |-> state, at_sequence |-> at_sequence, version |-> version]

NoSnapshot == Snapshot(<<>>, 0, 0)

\* ---- MemoryStore

\* MemoryStore::new ; a key without an entry holds the empty vector
Mem_new ==
    [state |-> [k \in EvKeys |-> <<>>],
     events |-> [k \in EvKeys |-> <<>>],
     snapshots |-> [k \in EvKeys |-> NoSnapshot],
     next_sequence |-> 1]

\* MemoryStore::put ; <<value>> for Some(value)
Mem_put(store, k, value) == [store EXCEPT !.state[k] = <<value>>]

\* MemoryStore::get
Mem_get(store, k) == store.state[k]

\* MemoryStore::append_event
Mem_append_event(store, k, data, timestamp, node_id) ==
    LET seq == store.next_sequence
        event == StoredEvent(seq, k[1], k[2], data, timestamp, node_id)
    IN  [store |-> [store EXCEPT !.next_sequence = seq + 1,
                                 !.events[k] = Append(@, event)],
         ret |-> seq]

\* MemoryStore::events_since
Mem_events_since(store, k, since_sequence) ==
    LET Later(e) == e.sequence > since_sequence
    IN  SelectSeq(store.events[k], Later)

\* MemoryStore::event_count
Mem_event_count(store, k) == Len(store.events[k])

\* MemoryStore::save_snapshot
Mem_save_snapshot(store, k, state, at_sequence, version) ==
    [store EXCEPT !.snapshots[k] = Snapshot(state, at_sequence, version)]

\* MemoryStore::load_snapshot
Mem_load_snapshot(store, k) == store.snapshots[k]

\* MemoryStore::truncate_events_before
Mem_truncate_events_before(store, k, before_sequence) ==
    LET Kept(e) == e.sequence >= before_sequence
        kept == SelectSeq(store.events[k], Kept)
    IN  [store |-> [store EXCEPT !.events[k] = kept],
         ret |-> Len(store.events[k]) - Len(kept)]


\* ---- RedbStore : four tables from byte keys to byte values, each a set of
\* (key, value) entries with one entry per key, scanned in key order.

Table_get(table, key) == {e \in table : e.key = key}

Table_insert(table, key, value) ==
    {e \in table : e.key # key} \cup {[key |-> key, value |-> value]}

Table_remove(table, key) == {e \in table : e.key # key}

\* table.range(lo..=hi) : the entries in ascending key order
Table_range(table, lo, hi) ==
    LET keys == {e.key : e \in {x \in table : BytesLeq(lo, x.key) /\ BytesLeq(x.key, hi)}}
        sorted == BytesSorted(keys)
    IN  [i \in 1..Len(sorted) |-> CHOOSE e \in table : e.key = sorted[i]]

\* state_key
Redb_state_key(namespace, key) == namespace \o <<0>> \o key

\* event_key, given sequence.to_be_bytes()
Redb_event_key_of_bytes(namespace, entity_id, sequence_be) ==
    namespace \o <<0>> \o entity_id \o <<0>> \o sequence_be

\* event_key
Redb_event_key(namespace, entity_id, sequence) ==
    Redb_event_key_of_bytes(namespace, entity_id, ToBeBytes(sequence, 8))

\* The index of the first 0 byte, 0 when there is none (Iterator::position).
FirstZero(bytes) ==
    LET zeros == {i \in 1..Len(bytes) : bytes[i] = 0}
    IN  IF zeros = {} THEN 0 ELSE CHOOSE i \in zeros : \A j \in zeros : i <= j

\* parse_event_key
Redb_parse_event_key(key) ==
    IF Len(key) < 10 THEN [ok |-> FALSE, ns |-> <<>>, eid |-> <<>>, seq |-> 0]
    ELSE LET seq == FromBeBytes(SubSeq(key, Len(key) - 7, Len(key)))
             prefix == SubSeq(key, 1, Len(key) - 9)
             pos == FirstZero(prefix)
         IN  IF pos = 0 THEN [ok |-> FALSE, ns |-> <<>>, eid |-> <<>>, seq |-> 0]
             ELSE [ok |-> TRUE, ns |-> SubSeq(prefix, 1, pos - 1),
                   eid |-> SubSeq(prefix, pos + 1, Len(prefix)), seq |-> seq]

\* seq_meta_key ; "seq:" is 115 101 113 58
Redb_seq_meta_key(namespace, entity_id) ==
    <<115, 101, 113, 58>> \o namespace \o <<0>> \o entity_id

\* encode_event_value
Redb_encode_event_value(timestamp, node_id, data) ==
    ToBeBytes(timestamp, 8) \o ToBeBytes(Len(node_id), 2) \o node_id \o data

\* decode_event_value
Redb_decode_event_value(value) ==
    LET none == [ok |-> FALSE, timestamp |-> 0, node_id |-> <<>>, data |-> <<>>]
    IN  IF Len(value) < 10 THEN none
        ELSE LET node_len == FromBeBytes(SubSeq(value, 9, 10))
             IN  IF Len(value) < 10 + node_len THEN none
                 ELSE [ok |-> TRUE,
                       timestamp |-> FromBeBytes(SubSeq(value, 1, 8)),
                       node_id |-> SubSeq(value, 11, 10 + node_len),
                       data |-> SubSeq(value, 11 + node_len, Len(value))]

\* encode_snapshot_value
Redb_encode_snapshot_value(at_sequence, version, state) ==
    ToBeBytes(at_sequence, 8) \o <<version>> \o state

\* decode_snapshot_value
Redb_decode_snapshot_value(value) ==
    IF Len(value) < 9 THEN NoSnapshot
    ELSE Snapshot(SubSeq(value, 10, Len(value)), FromBeBytes(SubSeq(value, 1, 8)), value[9])

\* RedbStore::open
Redb_open == [state |-> {}, events |-> {}, snapshots |-> {}, meta |-> {}]

\* RedbStore::put
Redb_put(store, k, value) ==
    [store EXCEPT !.state = Table_insert(@, Redb_state_key(k[1], k[2]), value)]

\* RedbStore::get
Redb_get(store, k) ==
    LET found == Table_get(store.state, Redb_state_key(k[1], k[2]))
    IN  IF found = {} THEN <<>> ELSE <<(CHOOSE e \in found : TRUE).value>>

\* append_event taking the next sequence from the events the table still
\* holds instead of the "seq:" counter
Redb_append_event_from_log(store, k, data, timestamp, node_id) ==
    LET held == {n \in 1..(EvMaxAppends + 1) :
                   Table_get(store.events, Redb_event_key(k[1], k[2], n)) # {}}
        seq == Cardinality(held) + 1
    IN  [store |-> [store EXCEPT
                       !.events = Table_insert(@, Redb_event_key(k[1], k[2], seq),
                                               Redb_encode_event_value(timestamp, node_id, data))],
         ret |-> seq]

\* RedbStore::append_event, one write transaction
Redb_append_event(store, k, data, timestamp, node_id) ==
    LET meta_key == Redb_seq_meta_key(k[1], k[2])
        found == Table_get(store.meta, meta_key)
        current == IF found = {} THEN 0
                   ELSE FromBeBytes((CHOOSE e \in found : TRUE).value)
        seq == current + 1
        ek == Redb_event_key(k[1], k[2], seq)
        ev == Redb_encode_event_value(timestamp, node_id, data)
    IN  [store |-> [store EXCEPT !.events = Table_insert(@, ek, ev),
                                 !.meta = Table_insert(@, meta_key, ToBeBytes(seq, 8))],
         ret |-> seq]

\* The loop of events_since over the range: an entry whose key and value
\* both parse becomes an event of the entity that was asked for.
RECURSIVE Redb_collect_events(_, _)
Redb_collect_events(range, k) ==
    IF range = <<>> THEN <<>>
    ELSE LET parsed == Redb_parse_event_key(range[1].key)
             decoded == Redb_decode_event_value(range[1].value)
         IN  (IF parsed.ok /\ decoded.ok
              THEN <<StoredEvent(parsed.seq, k[1], k[2], decoded.data,
                                 decoded.timestamp, decoded.node_id)>>
              ELSE <<>>) \o Redb_collect_events(Tail(range), k)

\* u64::saturating_add(1) ; the sequences of the model stay below u64::MAX,
\* where the addition would saturate
SaturatingAddOne(n) == n + 1

\* u64::saturating_sub(1)
SaturatingSubOne(n) == IF n = 0 THEN 0 ELSE n - 1

\* RedbStore::events_since
Redb_events_since(store, k, since_sequence) ==
    LET start == Redb_event_key(k[1], k[2], SaturatingAddOne(since_sequence))
        end == Redb_event_key_of_bytes(k[1], k[2], U64MaxBytes)
    IN  Redb_collect_events(Table_range(store.events, start, end), k)

\* RedbStore::event_count
Redb_event_count(store, k) ==
    Len(Table_range(store.events, Redb_event_key(k[1], k[2], 0),
                    Redb_event_key_of_bytes(k[1], k[2], U64MaxBytes)))

\* RedbStore::save_snapshot
Redb_save_snapshot(store, k, state, at_sequence, version) ==
    [store EXCEPT !.snapshots =
        Table_insert(@, Redb_state_key(k[1], k[2]),
                     Redb_encode_snapshot_value(at_sequence, version, state))]

\* RedbStore::load_snapshot
Redb_load_snapshot(store, k) ==
    LET found == Table_get(store.snapshots, Redb_state_key(k[1], k[2]))
    IN  IF found = {} THEN NoSnapshot
        ELSE Redb_decode_snapshot_value((CHOOSE e \in found : TRUE).value)

\* RedbStore::truncate_events_before
Redb_truncate_events_before(store, k, before_sequence) ==
    LET start == Redb_event_key(k[1], k[2], 0)
        end == Redb_event_key(k[1], k[2], SaturatingSubOne(before_sequence))
        range == Table_range(store.events, start, end)
        keys_to_remove == {range[i].key : i \in 1..Len(range)}
    IN  [store |-> [store EXCEPT !.events = {e \in @ : e.key \notin keys_to_remove}],
         ret |-> Len(range)]


\* ---- SqliteStore : tables as sets of rows; crdt_events.sequence is
\* INTEGER PRIMARY KEY AUTOINCREMENT, whose next value follows the largest
\* one ever given out (last_sequence).

\* SqliteStore::open_in_memory with create_schema
Sqlite_open == [state |-> {}, events |-> {}, snapshots |-> {}, last_sequence |-> 0]

\* SqliteStore::put : INSERT .. ON CONFLICT(namespace, key) DO UPDATE
Sqlite_put(store, k, value) ==
    [store EXCEPT !.state =
        {r \in @ : <<r.namespace, r.key>> # k}
        \cup {[namespace |-> k[1], key |-> k[2], data |-> value]}]

\* SqliteStore::get
Sqlite_get(store, k) ==
    LET rows == {r \in store.state : <<r.namespace, r.key>> = k}
    IN  IF rows = {} THEN <<>> ELSE <<(CHOOSE r \in rows : TRUE).data>>

\* SqliteStore::append_event : INSERT and last_insert_rowid under the lock
Sqlite_append_event(store, k, data, timestamp, node_id) ==
    LET seq == store.last_sequence + 1
    IN  [store |-> [store EXCEPT
                       !.events = @ \cup {StoredEvent(seq, k[1], k[2], data, timestamp, node_id)},
                       !.last_sequence = seq],
         ret |-> seq]

\* ORDER BY sequence
RECURSIVE RowsBySequence(_)
RowsBySequence(rows) ==
    IF rows = {} THEN <<>>
    ELSE LET first == CHOOSE r \in rows : \A q \in rows : r.sequence <= q.sequence
         IN  <<first>> \o RowsBySequence(rows \ {first})

\* SqliteStore::events_since
Sqlite_events_since(store, k, since_sequence) ==
    RowsBySequence({r \in store.events :
        /\ r.namespace = k[1] /\ r.entity_id = k[2] /\ r.sequence > since_sequence})

\* SqliteStore::event_count
Sqlite_event_count(store, k) ==
    Cardinality({r \in store.events : r.namespace = k[1] /\ r.entity_id = k[2]})

\* SqliteStore::save_snapshot : INSERT .. ON CONFLICT(namespace, entity_id) DO UPDATE
Sqlite_save_snapshot(store, k, state, at_sequence, version) ==
    [store EXCEPT !.snapshots =
        {r \in @ : <<r.namespace, r.entity_id>> # k}
        \cup {[namespace |-> k[1], entity_id |-> k[2],
               snapshot |-> Snapshot(state, at_sequence, version)]}]

\* SqliteStore::load_snapshot
Sqlite_load_snapshot(store, k) ==
    LET rows == {r \in store.snapshots : <<r.namespace, r.entity_id>> = k}
    IN  IF rows = {} THEN NoSnapshot ELSE (CHOOSE r \in rows : TRUE).snapshot

\* SqliteStore::truncate_events_before : DELETE .. AND sequence < ?3
Sqlite_truncate_events_before(store, k, before_sequence) ==
    LET deleted == {r \in store.events :
                      /\ r.namespace = k[1] /\ r.entity_id = k[2]
                      /\ r.sequence < before_sequence}
    IN  [store |-> [store EXCEPT !.events = @ \ deleted], ret |-> Cardinality(deleted)]

\* ---- The EventStore trait over the three backends

EvBackends == {"memory", "redb", "sqlite"}

EventStore_append_event(b, store, k, data, timestamp, node_id) ==
    CASE b = "memory" -> Mem_append_event(store, k, data, timestamp, node_id)
      [] b = "redb" -> Redb_append_event(store, k, data, timestamp, node_id)
      [] b = "sqlite" -> Sqlite_append_event(store, k, data, timestamp, node_id)

EventStore_events_since(b, store, k, since_sequence) ==
    CASE b = "memory" -> Mem_events_since(store, k, since_sequence)
      [] b = "redb" -> Redb_events_since(store, k, since_sequence)
      [] b = "sqlite" -> Sqlite_events_since(store, k, since_sequence)

EventStore_event_count(b, store, k) ==
    CASE b = "memory" -> Mem_event_count(store, k)
      [] b = "redb" -> Redb_event_count(store, k)
      [] b = "sqlite" -> Sqlite_event_count(store, k)

EventStore_save_snapshot(b, store, k, state, at_sequence, version) ==
    CASE b = "memory" -> Mem_save_snapshot(store, k, state, at_sequence, version)
      [] b = "redb" -> Redb_save_snapshot(store, k, state, at_sequence, version)
      [] b = "sqlite" -> Sqlite_save_snapshot(store, k, state, at_sequence, version)

EventStore_load_snapshot(b, store, k) ==
    CASE b = "memory" -> Mem_load_snapshot(store, k)
      [] b = "redb" -> Redb_load_snapshot(store, k)
      [] b = "sqlite" -> Sqlite_load_snapshot(store, k)

EventStore_truncate_events_before(b, store, k, before_sequence) ==
    CASE b = "memory" -> Mem_truncate_events_before(store, k, before_sequence)
      [] b = "redb" -> Redb_truncate_events_before(store, k, before_sequence)
      [] b = "sqlite" -> Sqlite_truncate_events_before(store, k, before_sequence)

StateStore_put(b, store, k, value) ==
    CASE b = "memory" -> Mem_put(store, k, value)
      [] b = "redb" -> Redb_put(store, k, value)
      [] b = "sqlite" -> Sqlite_put(store, k, value)

StateStore_get(b, store, k) ==
    CASE b = "memory" -> Mem_get(store, k)
      [] b = "redb" -> Redb_get(store, k)
      [] b = "sqlite" -> Sqlite_get(store, k)

\* CrdtDb::compact over backend b
Db_compact(b, store, k, state, version) ==
    LET events == EventStore_events_since(b, store, k, 0)
        max_seq == IF events = <<>> THEN 0 ELSE events[Len(events)].sequence
    IN  IF max_seq = 0 THEN [store |-> store, ret |-> 0]
        ELSE EventStore_truncate_events_before(
                 b, EventStore_save_snapshot(b, store, k, state, max_seq, version),
                 k, max_seq)

\* The backend calls of compact in the order it makes them: 1 is
\* events_since, 2 save_snapshot, 3 truncate_events_before.
CompactCalls == 1..3

\* max_seq of CrdtDb::compact
Db_compact_max_seq(b, store, k) ==
    LET events == EventStore_events_since(b, store, k, 0)
    IN  IF events = <<>> THEN 0 ELSE events[Len(events)].sequence

\* Faulty variant of a failing compact that truncates before it saves the
\* snapshot.
Db_compact_failed_truncate_first(b, store, k, state, version, failing) ==
    LET max_seq == Db_compact_max_seq(b, store, k)
    IN  IF failing = 1 THEN [store |-> store, ret |-> "Err"]
        ELSE IF max_seq = 0 THEN [store |-> store, ret |-> "Ok"]
        ELSE IF failing = 2
        THEN [store |-> EventStore_truncate_events_before(b, store, k, max_seq).store,
              ret |-> "Err"]
        ELSE [store |-> EventStore_save_snapshot(b, store, k, state, max_seq, version),
              ret |-> "Err"]

\* CrdtDb::compact when the backend call numbered failing returns an error:
\* the call leaves the backend as it was (each is one redb transaction, one
\* SQL statement, or fails before it writes) and `.map_err(DbError::Store)?`
\* returns at once.  With an empty log compact returns Ok(0) before the
\* second call.
Db_compact_failed(b, store, k, state, version, failing) ==
    LET max_seq == Db_compact_max_seq(b, store, k)
    IN  IF failing = 1 THEN [store |-> store, ret |-> "Err"]
        ELSE IF max_seq = 0 THEN [store |-> store, ret |-> "Ok"]
        ELSE IF failing = 2 THEN [store |-> store, ret |-> "Err"]
        ELSE [store |-> EventStore_save_snapshot(b, store, k, state, max_seq, version),
              ret |-> "Err"]

\* The store of backend b in the current state.
EvStore(b) ==
    CASE b = "memory" -> memStore
      [] b = "redb" -> redbStore
      [] b = "sqlite" -> sqliteStore

\* The last call made on the stores: its name, its entity and its sequence
\* argument.
EvCall(op, k, arg) == [op |-> op, key |-> k, arg |-> arg]

NoEvCall == EvCall("none", <<>>, 0)

EvInit ==
    /\ memStore = Mem_new
    /\ redbStore = Redb_open
    /\ sqliteStore = Sqlite_open
    /\ evLog = [k \in EvKeys |-> [b \in EvBackends |-> 0]]
    /\ evLast = NoEvCall

(***************************************************************************)
(* Concurrent appenders  (src/crates/crdt-store/src/redb.rs, sqlite.rs)    *)
(*                                                                         *)
(* Several callers run append_event on one (namespace, entity_id) of one   *)
(* durable store, a step of the model being one call into the database     *)
(* library.  redb gives out one write transaction at a time (begin_write   *)
(* waits for the open one to end) and a transaction's writes reach the     *)
(* tables at commit; the sqlite connection sits behind a Mutex, and        *)
(* last_insert_rowid is the rowid of the connection's latest INSERT.       *)
(***************************************************************************)
ApMaxCalls == 4
Appenders == {1, 2}
ApKey == <<<<97>>, <<98>>>>
ApData == <<7>>

\* No write transaction open; no holder of the connection's Mutex.
NoAppender == 0

NoTxn == [events |-> {}, meta |-> {}]

\* An appender between calls.
ApIdle == [pc |-> "idle", txn |-> NoTxn, seq |-> 0]

\* begin_write that does not wait for the open write transaction
Redb_begin_write_unserialized(store) == TRUE

\* self.db.begin_write() : TRUE when it returns without waiting, which is
\* when no write transaction is open
Redb_begin_write_ready(store) == store.writer = NoAppender

\* self.lock() : TRUE when the Mutex is free
Sqlite_lock_ready(store) == store.holder = NoAppender

\* meta.get(meta_key) and `current + 1` inside the transaction
Redb_txn_next_sequence(txn, k) ==
    LET found == Table_get(txn.meta, Redb_seq_meta_key(k[1], k[2]))
    IN  (IF found = {} THEN 0 ELSE FromBeBytes((CHOOSE e \in found : TRUE).value)) + 1

\* events.insert(ek, ev) inside the transaction
Redb_txn_insert_event(txn, k, seq, data, timestamp, node_id) ==
    [txn EXCEPT !.events = Table_insert(@, Redb_event_key(k[1], k[2], seq),
                                        Redb_encode_event_value(timestamp, node_id, data))]

\* meta.insert(meta_key, seq.to_be_bytes()) inside the transaction
Redb_txn_update_meta(txn, k, seq) ==
    [txn EXCEPT !.meta = Table_insert(@, Redb_seq_meta_key(k[1], k[2]), ToBeBytes(seq, 8))]

\* txn.commit() : the transaction's tables become the store's
Redb_txn_commit(store, txn, p) ==
    [store EXCEPT !.events = txn.events, !.meta = txn.meta,
                  !.writer = IF @ = p THEN NoAppender ELSE @]

\* conn.execute("INSERT INTO crdt_events ..") : the row takes the next
\* AUTOINCREMENT value, which becomes the connection's last_insert_rowid
Sqlite_execute_insert(store, k, data, timestamp, node_id) ==
    LET seq == store.last_sequence + 1
    IN  [store EXCEPT
            !.events = @ \cup {StoredEvent(seq, k[1], k[2], data, timestamp, node_id)},
            !.last_sequence = seq,
            !.last_insert_rowid = seq]

ApInit ==
    /\ apStore = [redb |-> [events |-> {}, meta |-> {}, writer |-> NoAppender],
                  sqlite |-> [events |-> {}, last_sequence |-> 0, last_insert_rowid |-> 0,
                              holder |-> NoAppender]]
    /\ apProc = [p \in Appenders |-> ApIdle]
    /\ apLog = [b \in {"redb", "sqlite"} |-> <<>>]

(***************************************************************************)
(* Concurrent compactions  (src/crates/crdt-store/src/db.rs,               *)
(* src/crates/crdt-cli/src/commands.rs)                                    *)
(* Several callers work on one entity of one SQLite file, each through its *)
(* own connection: facades that append and compact, and the compact        *)
(* command of the tool.  Each backend call is one SQL statement; a compact *)
(* is three of them, and calls of other callers come in between.           *)
(***************************************************************************)
CcMaxAppends == 3
CcMaxCompacts == 2
Compactors == {1, 2}
CcKey == <<<<97>>, <<98>>>>
\* The serialized state a caller hands to compact.
CcState(p) == <<42 + p>>

\* A caller between two calls of compact: pc names the call it makes next.
CcIdle == [pc |-> "idle", max_seq |-> 0]

\* compact, first call: events_since(ns, eid, 0) and max_seq; the caller
\* returns Ok(0) at once when the log is empty.
Compact_events_since(store, k) ==
    LET max_seq == Db_compact_max_seq("sqlite", store, k)
    IN  IF max_seq = 0 THEN CcIdle ELSE [pc |-> "save_snapshot", max_seq |-> max_seq]

\* compact, second call: save_snapshot(ns, eid, state, max_seq, version)
Compact_save_snapshot(store, k, state, max_seq, version) ==
    Sqlite_save_snapshot(store, k, state, max_seq, version)

\* compact, third call: truncate_events_before(ns, eid, max_seq)
Compact_truncate(store, k, max_seq) ==
    Sqlite_truncate_events_before(store, k, max_seq).store

\* appended: the sequences append_event has returned; compacts: the
\* compactions begun.
CcInit == cc = [proc |-> [p \in Compactors |-> CcIdle], appended |-> {}, compacts |-> 0]

(***************************************************************************)
(* Two facades over one backend  (src/crates/crdt-store/src/db.rs)         *)
(* Each facade owns its handle of the shared backend (a connection to the  *)
(* same file).  save_ns is one put; load_ns is a get followed, when the    *)
(* entry is migrated with write-back on, by a put, with no transaction     *)
(* around the two: calls of the other facade come in between.              *)
(***************************************************************************)
WbMaxCalls == 4
Facades == {1, 2}
\* The schema version of the type the facades load, and of their engine.
WbSchemaVersion == 2
\* The values the facades save: of an older application and of the current one.
WbValues == [datum : DbData, version : 1..WbSchemaVersion]

\* The facade both instances are built as: CrdtDb::builder(store, 2) with
\* the step 1 -> 2, write_back_on_read at its default.
WbDb ==
    Db_build(Db_register_migration(Db_builder(WbSchemaVersion),
                                   [source |-> 1, target |-> 2, fails |-> FALSE]))

\* A facade outside load_ns.  In a load, raw is what its get returned and
\* stale says that another facade has saved the key since.
WbIdle == [pc |-> "idle", raw |-> <<>>, stale |-> FALSE]

\* load_ns up to `let raw = self.store.get(namespace, key)`
Db_load_ns_get(store) == [pc |-> "loaded", raw |-> store, stale |-> FALSE]

\* load_ns after the get, on the bytes it returned: what the call puts
\* (<<>> when it puts nothing) and what it returns.
Db_load_ns_rest(db, raw, schema_version) ==
    LET out == Db_load_ns(db, raw, schema_version, FALSE, FALSE)
    IN  [put |-> IF out.store # raw THEN out.store ELSE <<>>, ret |-> out.ret]

WbInit == wbFacade = [proc |-> [p \in Facades |-> WbIdle], calls |-> 0]

(***************************************************************************)
(* The operations, one action each.  Each data type is exercised by its    *)
(* own specification; the other data types stand still.                    *)
(***************************************************************************)
\* Every replica freshly constructed; the LWW registers either fixed (Init)
\* or built by with_timestamp from any value and timestamp (InitLww).
Init == LwwIdle /\ RgaInit /\ TextInit /\ OrsInit /\ MvInit /\ TpsInit /\ GcInit /\ PnInit /\ HlcInit /\ DbIdle /\ EvInit /\ ApInit /\ CcInit /\ WbInit

InitLww == LwwInit /\ RgaInit /\ TextInit /\ OrsInit /\ MvInit /\ TpsInit /\ GcInit /\ PnInit /\ HlcInit /\ DbIdle /\ EvInit /\ ApInit /\ CcInit /\ WbInit

InitDb == LwwIdle /\ RgaInit /\ TextInit /\ OrsInit /\ MvInit /\ TpsInit /\ GcInit /\ PnInit /\ HlcInit /\ DbInit /\ EvInit /\ ApInit /\ CcInit /\ WbInit

notLww  == <<rgaVars, textVars, orsVars, mvVars, tpsVars, gcVars, pnVars, hlcVars, dbVars, evVars, apVars, ccVars, wbVars>>
notRga  == <<lwwVars, textVars, orsVars, mvVars, tpsVars, gcVars, pnVars, hlcVars, dbVars, evVars, apVars, ccVars, wbVars>>
notText == <<lwwVars, rgaVars, orsVars, mvVars, tpsVars, gcVars, pnVars, hlcVars, dbVars, evVars, apVars, ccVars, wbVars>>
notOrs  == <<lwwVars, rgaVars, textVars, mvVars, tpsVars, gcVars, pnVars, hlcVars, dbVars, evVars, apVars, ccVars, wbVars>>
notMv   == <<lwwVars, rgaVars, textVars, orsVars, tpsVars, gcVars, pnVars, hlcVars, dbVars, evVars, apVars, ccVars, wbVars>>
notTps  == <<lwwVars, rgaVars, textVars, orsVars, mvVars, gcVars, pnVars, hlcVars, dbVars, evVars, apVars, ccVars, wbVars>>
notGc   == <<lwwVars, rgaVars, textVars, orsVars, mvVars, tpsVars, pnVars, hlcVars, dbVars, evVars, apVars, ccVars, wbVars>>
notPn   == <<lwwVars, rgaVars, textVars, orsVars, mvVars, tpsVars, gcVars, hlcVars, dbVars, evVars, apVars, ccVars, wbVars>>
notHlc  == <<lwwVars, rgaVars, textVars, orsVars, mvVars, tpsVars, gcVars, pnVars, dbVars, evVars, apVars, ccVars, wbVars>>
notDb   == <<lwwVars, rgaVars, textVars, orsVars, mvVars, tpsVars, gcVars, pnVars, hlcVars, evVars, apVars, ccVars, wbVars>>
notEv   == <<lwwVars, rgaVars, textVars, orsVars, mvVars, tpsVars, gcVars, pnVars, hlcVars, dbVars, apVars, ccVars, wbVars>>
notAp   == <<lwwVars, rgaVars, textVars, orsVars, mvVars, tpsVars, gcVars, pnVars, hlcVars, dbVars, evVars, ccVars, wbVars>>
notCc   == <<lwwVars, rgaVars, textVars, orsVars, mvVars, tpsVars, gcVars, pnVars, hlcVars, dbVars, evVars, apVars, wbVars>>
notWb   == <<lwwVars, rgaVars, textVars, orsVars, mvVars, tpsVars, gcVars, pnVars, hlcVars, dbVars, evVars, apVars, ccVars>>

\* ---- LWW-Register
LwwSet ==
    \E a \in Actors, v \in LwwValues, t \in LwwTimestamps :
        /\ lww' = [lww EXCEPT ![a] = LWW_set_with_timestamp(lww[a], v, t)]
        /\ UNCHANGED notLww

LwwMerge ==
    \E a \in Actors : \E b \in Actors \ {a} :
        /\ lww' = [lww EXCEPT ![a] = LWW_merge(lww[a], lww[b])]
        /\ UNCHANGED notLww

LwwNext == LwwSet \/ LwwMerge

SpecLww ==
    InitLww /\ [][LwwNext]_vars

\* ---- Rga
\* The ids of the nodes inserted so far, on any replica (the model's cap counts them).
RgaAllNodes == UNION {DOMAIN rga[r].nodes : r \in Actors}

RgaInsertAt ==
    \E a \in Actors, v \in RgaValues :
      \E index \in 0..Rga_len(rga[a]) :
        /\ Cardinality(RgaAllNodes) < RgaMaxInserts
        /\ rga' = [rga EXCEPT ![a] = Rga_insert_at(rga[a], index, v)]
        /\ UNCHANGED notRga

RgaRemove ==
    \E a \in Actors :
      \E index \in 0..Rga_len(rga[a]) :
        /\ rga' = [rga EXCEPT ![a] = Rga_remove(rga[a], index)]
        /\ Cardinality(UNION {rga'[r].tombstones : r \in Actors}) <= RgaMaxRemoved
        /\ UNCHANGED notRga

RgaMerge ==
    \E a \in Actors : \E b \in Actors \ {a} :
        /\ rga' = [rga EXCEPT ![a] = Rga_merge(rga[a], rga[b])]
        /\ UNCHANGED notRga

RgaNext == RgaInsertAt \/ RgaRemove \/ RgaMerge

SpecRga ==
    Init /\ [][RgaNext]_vars

\* The same replicas when every inserted element carries the same value.
\* rebuild_sequence, visible_sequence, remove and merge never read a node's
\* value, so the ids, parents, tombstones and orders reached are those of
\* SpecRga; this specification serves the properties that are about them.
RgaInsertSame ==
    \E a \in Actors :
      \E index \in 0..Rga_len(rga[a]) :
        /\ Cardinality(RgaAllNodes) < RgaMaxInserts
        /\ rga' = [rga EXCEPT ![a] = Rga_insert_at(rga[a], index, "x")]
        /\ UNCHANGED notRga

RgaSeqNext == RgaInsertSame \/ RgaRemove \/ RgaMerge

SpecRgaSeq ==
    Init /\ [][RgaSeqNext]_vars

\* ---- TextCrdt
\* The ids inserted, and the ids deleted, so far on any replica (the model's caps).
TextAllIds ==
    UNION {{text[r].elements[i].id : i \in 1..Len(text[r].elements)} : r \in Actors}
TextAllDeleted ==
    UNION {{text[r].elements[i].id : i \in {j \in 1..Len(text[r].elements) :
                                                text[r].elements[j].deleted}} : r \in Actors}

TextInsert ==
    \E a \in Actors, ch \in TextChars :
      \E index \in 0..Text_len(text[a]) :
        /\ Cardinality(TextAllIds) < TextMaxInserts
        /\ text' = [text EXCEPT ![a] = Text_insert(text[a], index, ch)]
        /\ UNCHANGED notText

TextRemove ==
    \E a \in Actors :
      \E index \in 0..(Text_len(text[a]) - 1) :
        /\ text' = [text EXCEPT ![a] = Text_remove(text[a], index)]
        /\ Cardinality(TextAllDeleted') <= TextMaxRemoved
        /\ UNCHANGED notText

\* b = a.fork("b") : the fork takes an actor that no replica has written as.
TextFork ==
    \E a \in Actors : \E b \in Actors \ {a} :
        /\ text[b] = Text_new(b)
        /\ \A c \in Actors : text[c].version[b] = 0
        /\ text' = [text EXCEPT ![b] = Text_fork(text[a], b)]
        /\ UNCHANGED notText

TextMerge ==
    \E a \in Actors : \E b \in Actors \ {a} :
        /\ text' = [text EXCEPT ![a] = Text_merge(text[a], text[b])]
        /\ UNCHANGED notText

TextNext == TextInsert \/ TextRemove \/ TextFork \/ TextMerge

SpecText ==
    Init /\ [][TextNext]_vars

\* ---- OR-Set
\* The tags created so far (the model's cap counts them): a tag stays live or
\* tombstoned on the replica that created it.
OrsAllTags ==
    UNION {ors[r].tombstones \cup UNION {ors[r].elements[v] : v \in OrsValues} : r \in Actors}

OrsInsert ==
    \E a \in Actors, x \in OrsValues :
        /\ Cardinality(OrsAllTags) < OrsMaxInserts
        /\ ors' = [ors EXCEPT ![a] = ORSet_insert(ors[a], x)]
        /\ UNCHANGED notOrs

OrsRemove ==
    \E a \in Actors, x \in OrsValues :
        /\ ors' = [ors EXCEPT ![a] = ORSet_remove(ors[a], x)]
        /\ UNCHANGED notOrs

OrsMerge ==
    \E a \in Actors : \E b \in Actors \ {a} :
        /\ ors' = [ors EXCEPT ![a] = ORSet_merge(ors[a], ors[b])]
        /\ UNCHANGED notOrs

\* c.apply_delta(&a.delta(&b)) : the delta a computed against b's state
\* reaches a replica c, which is b or (a delta forwarded) another one.
OrsApplyDelta ==
    \E a \in Actors : \E b \in Actors \ {a} : \E c \in Actors \ {a} :
        /\ ors' = [ors EXCEPT ![c] = ORSet_apply_delta(ors[c], ORSet_delta(ors[a], ors[b]))]
        /\ UNCHANGED notOrs

OrsNext == OrsInsert \/ OrsRemove \/ OrsMerge \/ OrsApplyDelta

SpecOrs ==
    Init /\ [][OrsNext]_vars

\* ---- MV-Register
MvSet ==
    \E a \in Actors, v \in MvValues :
        /\ Cardinality(mvWrites) < MvMaxWrites
        /\ mv' = [mv EXCEPT ![a] = MV_set(mv[a], v)]
        /\ mvWrites' = mvWrites \cup {MV_set(mv[a], v).entries[1]}
        /\ UNCHANGED notMv

MvMerge ==
    \E a \in Actors : \E b \in Actors \ {a} :
        /\ mv' = [mv EXCEPT ![a] = MV_merge(mv[a], mv[b])]
        /\ UNCHANGED <<mvWrites, notMv>>

MvNext == MvSet \/ MvMerge

SpecMv ==
    Init /\ [][MvNext]_vars

\* 2P-Set: insert, remove and merge on any replica.  tpsRemoved records, per
\* replica, the values whose successful removal it performed or learnt of by
\* merging (directly or transitively).
TpsInsert ==
    \E r \in Actors : \E v \in TpsValues :
        /\ tps' = [tps EXCEPT ![r] = TwoPSet_insert(tps[r], v)]
        /\ UNCHANGED <<tpsRemoved, notTps>>

TpsRemove ==
    \E r \in Actors : \E v \in TpsValues :
        /\ tps' = [tps EXCEPT ![r] = TwoPSet_remove(tps[r], v)]
        /\ tpsRemoved' = IF TwoPSet_remove_ok(tps[r], v)
                         THEN [tpsRemoved EXCEPT ![r] = @ \cup {v}]
                         ELSE tpsRemoved
        /\ UNCHANGED notTps

TpsMerge ==
    \E r \in Actors : \E q \in Actors \ {r} :
        /\ tps' = [tps EXCEPT ![r] = TwoPSet_merge(tps[r], tps[q])]
        /\ tpsRemoved' = [tpsRemoved EXCEPT ![r] = @ \cup tpsRemoved[q]]
        /\ UNCHANGED notTps

TpsNext == TpsInsert \/ TpsRemove \/ TpsMerge

SpecTps ==
    Init /\ [][TpsNext]_vars

\* G-Counter: each replica increments its own entry; replicas merge states or
\* apply deltas.  gcTotal adds up the increments performed anywhere.
GcIncrement ==
    \E a \in Actors : \E n \in GcSteps :
        /\ gcTotal + n <= GcMaxTotal
        /\ gc' = [gc EXCEPT ![a] = GCounter_increment_by(gc[a], n)]
        /\ gcTotal' = gcTotal + n
        /\ UNCHANGED notGc

GcMerge ==
    \E a \in Actors : \E b \in Actors \ {a} :
        /\ gc' = [gc EXCEPT ![a] = GCounter_merge(gc[a], gc[b])]
        /\ UNCHANGED <<gcTotal, notGc>>

GcApplyDelta ==
    \E a \in Actors : \E b \in Actors \ {a} :
        /\ gc' = [gc EXCEPT ![b] = GCounter_apply_delta(gc[b], GCounter_delta(gc[a], gc[b]))]
        /\ UNCHANGED <<gcTotal, notGc>>

GcNext == GcIncrement \/ GcMerge \/ GcApplyDelta

SpecGc ==
    Init /\ [][GcNext]_vars

\* PN-Counter: increments and decrements on the own entries, merges, deltas.
PnOps == SumOver([a \in Actors |-> pn[a].increments.counts[a] + pn[a].decrements.counts[a]],
                 Actors)

PnIncrement ==
    \E a \in Actors :
        /\ PnOps < PnMaxOps
        /\ pn' = [pn EXCEPT ![a] = PNCounter_increment(pn[a])]
        /\ UNCHANGED notPn

PnDecrement ==
    \E a \in Actors :
        /\ PnOps < PnMaxOps
        /\ pn' = [pn EXCEPT ![a] = PNCounter_decrement(pn[a])]
        /\ UNCHANGED notPn

PnMerge ==
    \E a \in Actors : \E b \in Actors \ {a} :
        /\ pn' = [pn EXCEPT ![a] = PNCounter_merge(pn[a], pn[b])]
        /\ UNCHANGED notPn

PnApplyDelta ==
    \E a \in Actors : \E b \in Actors \ {a} :
        /\ pn' = [pn EXCEPT ![b] = PNCounter_apply_delta(pn[b], PNCounter_delta(pn[a], pn[b]))]
        /\ UNCHANGED notPn

PnNext == PnIncrement \/ PnDecrement \/ PnMerge \/ PnApplyDelta

SpecPn ==
    Init /\ [][PnNext]_vars

\* One clock; every call reads the time source (any value) and is compiled
\* with or without overflow checks.  A panicking call returns nothing.
HlcNow ==
    \E pt \in HlcTimes : \E checks \in BOOLEAN :
        /\ ~hlcPanicked
        /\ Len(hlcLog) < HlcMaxCalls
        /\ IF checks /\ Hlc_now_overflows(hlc, pt)
           THEN hlcPanicked' = TRUE /\ UNCHANGED <<hlc, hlcLog>>
           ELSE /\ hlc' = Hlc_now(hlc, pt)
                /\ hlcLog' = Append(hlcLog, Hlc_now(hlc, pt).last)
                /\ UNCHANGED hlcPanicked
        /\ UNCHANGED notHlc

HlcReceive ==
    \E pt \in HlcTimes : \E remote \in HlcRemotes : \E checks \in BOOLEAN :
        /\ ~hlcPanicked
        /\ Len(hlcLog) < HlcMaxCalls
        /\ IF checks /\ Hlc_receive_overflows(hlc, remote, pt)
           THEN hlcPanicked' = TRUE /\ UNCHANGED <<hlc, hlcLog>>
           ELSE /\ hlc' = Hlc_receive(hlc, remote, pt)
                /\ hlcLog' = Append(hlcLog, Hlc_receive(hlc, remote, pt).last)
                /\ UNCHANGED hlcPanicked
        /\ UNCHANGED notHlc

HlcNext == HlcNow \/ HlcReceive

SpecHlc ==
    Init /\ [][HlcNext]_vars


DbRegisterMigration ==
    /\ ~dbCfg.built
    /\ Len(dbCfg.migration_engine.steps) < DbMaxSteps
    /\ \E step \in DbSteps : dbCfg' = Db_register_migration(dbCfg, step)
    /\ UNCHANGED <<dbStore, dbLast>>
    /\ UNCHANGED notDb

DbMigrationConfig ==
    /\ ~dbCfg.built
    /\ \E wb \in BOOLEAN :
         /\ wb # dbCfg.write_back_on_read
         /\ dbCfg' = Db_migration_config(dbCfg, wb)
    /\ UNCHANGED <<dbStore, dbLast>>
    /\ UNCHANGED notDb

DbBuild ==
    /\ ~dbCfg.built
    /\ dbCfg' = Db_build(dbCfg)
    /\ UNCHANGED <<dbStore, dbLast>>
    /\ UNCHANGED notDb

DbSave ==
    /\ dbCfg.built
    /\ \E value \in [datum : DbData, version : DbVersions], putFails \in BOOLEAN :
         LET out == Db_save_ns(dbCfg, dbStore, value, putFails)
         IN  /\ dbStore' = out.store
             /\ dbLast' = [NoCall EXCEPT !.op = "save", !.ret = out.ret]
    /\ UNCHANGED dbCfg
    /\ UNCHANGED notDb

DbLoad ==
    /\ dbCfg.built
    /\ \E T \in DbVersions, getFails \in BOOLEAN, putFails \in BOOLEAN :
         LET out == Db_load_ns(dbCfg, dbStore, T, getFails, putFails)
         IN  /\ dbStore' = out.store
             /\ dbLast' = [op |-> "load", schema_version |-> T, before |-> dbStore,
                           getFails |-> getFails, putFails |-> putFails,
                           ret |-> out.ret]
    /\ UNCHANGED dbCfg
    /\ UNCHANGED notDb

DbDelete ==
    /\ dbCfg.built
    /\ \E deleteFails \in BOOLEAN :
         LET out == Db_delete_ns(dbCfg, dbStore, deleteFails)
         IN  /\ dbStore' = out.store
             /\ dbLast' = [NoCall EXCEPT !.op = "delete", !.ret = out.ret]
    /\ UNCHANGED dbCfg
    /\ UNCHANGED notDb

DbStorePut ==
    /\ dbCfg.built
    /\ \E raw \in DbRawWrites :
         /\ dbStore' = Store_put(dbStore, raw, FALSE)
         /\ dbLast' = [NoCall EXCEPT !.op = "put"]
    /\ UNCHANGED dbCfg
    /\ UNCHANGED notDb

DbNext ==
    \/ DbRegisterMigration
    \/ DbMigrationConfig
    \/ DbBuild
    \/ DbSave
    \/ DbLoad
    \/ DbDelete
    \/ DbStorePut

SpecDb == InitDb /\ [][DbNext]_vars


\* ---- Event log: each call is made on the three backends alike

EvAppend ==
    /\ memStore.next_sequence <= EvMaxAppends
    /\ \E k \in EvKeys, data \in EvData :
         LET out == [b \in EvBackends |->
                       EventStore_append_event(b, EvStore(b), k, data, EvTimestamp, EvNodeId)]
         IN  /\ memStore' = out["memory"].store
             /\ redbStore' = out["redb"].store
             /\ sqliteStore' = out["sqlite"].store
             /\ evLog' = [evLog EXCEPT ![k] = [b \in EvBackends |-> out[b].ret]]
             /\ evLast' = EvCall("append_event", k, 0)
    /\ UNCHANGED notEv

EvTruncate ==
    /\ \E k \in EvKeys, before_sequence \in EvSequences :
         LET out == [b \in EvBackends |->
                       EventStore_truncate_events_before(b, EvStore(b), k, before_sequence)]
         IN  /\ memStore' = out["memory"].store
             /\ redbStore' = out["redb"].store
             /\ sqliteStore' = out["sqlite"].store
             /\ evLast' = EvCall("truncate_events_before", k, before_sequence)
    /\ UNCHANGED evLog
    /\ UNCHANGED notEv

EvSaveSnapshot ==
    /\ \E k \in EvKeys, state \in EvSnapshotStates, at_sequence \in EvSnapshotAt,
          version \in EvSnapshotVersions :
         /\ memStore' = Mem_save_snapshot(memStore, k, state, at_sequence, version)
         /\ redbStore' = Redb_save_snapshot(redbStore, k, state, at_sequence, version)
         /\ sqliteStore' = Sqlite_save_snapshot(sqliteStore, k, state, at_sequence, version)
         /\ evLast' = EvCall("save_snapshot", k, at_sequence)
    /\ UNCHANGED evLog
    /\ UNCHANGED notEv

EvCompact ==
    /\ \E k \in EvKeys, state \in EvCompactStates, version \in EvSnapshotVersions :
         LET out == [b \in EvBackends |-> Db_compact(b, EvStore(b), k, state, version)]
         IN  /\ memStore' = out["memory"].store
             /\ redbStore' = out["redb"].store
             /\ sqliteStore' = out["sqlite"].store
             /\ evLast' = EvCall("compact", k, 0)
    /\ UNCHANGED evLog
    /\ UNCHANGED notEv

\* A compact one of whose backend calls fails.
EvCompactFails ==
    /\ \E k \in EvKeys, state \in EvCompactStates, version \in EvSnapshotVersions,
          failing \in CompactCalls :
         LET out == [b \in EvBackends |->
                       Db_compact_failed(b, EvStore(b), k, state, version, failing)]
         IN  /\ memStore' = out["memory"].store
             /\ redbStore' = out["redb"].store
             /\ sqliteStore' = out["sqlite"].store
             /\ evLast' = EvCall("compact_failed", k, failing)
    /\ UNCHANGED evLog
    /\ UNCHANGED notEv

EvNext ==
    \/ EvAppend
    \/ EvTruncate
    \/ EvSaveSnapshot
    \/ EvCompact
    \/ EvCompactFails

SpecEv == Init /\ [][EvNext]_vars

\* ---- Concurrent appenders: each step is one library call of append_event

\* The calls begun so far: those that returned and those under way.
ApCalls ==
    Len(apLog["redb"]) + Len(apLog["sqlite"])
      + Cardinality({p \in Appenders : apProc[p].pc # "idle"})

\* RedbStore::append_event : let txn = self.db.begin_write()
ApRedbBegin(p) ==
    /\ apProc[p].pc = "idle"
    /\ ApCalls < ApMaxCalls
    /\ Redb_begin_write_ready(apStore.redb)
    /\ apStore' = [apStore EXCEPT !.redb.writer = p]
    /\ apProc' = [apProc EXCEPT ![p] =
                    [pc |-> "redb_read_meta",
                     txn |-> [events |-> apStore.redb.events, meta |-> apStore.redb.meta],
                     seq |-> 0]]
    /\ UNCHANGED apLog
    /\ UNCHANGED notAp

\* meta.get(meta_key) ; let seq = current + 1
ApRedbReadMeta(p) ==
    /\ apProc[p].pc = "redb_read_meta"
    /\ apProc' = [apProc EXCEPT ![p].pc = "redb_insert_event",
                                ![p].seq = Redb_txn_next_sequence(apProc[p].txn, ApKey)]
    /\ UNCHANGED <<apStore, apLog>>
    /\ UNCHANGED notAp

\* events.insert(ek, ev)
ApRedbInsertEvent(p) ==
    /\ apProc[p].pc = "redb_insert_event"
    /\ apProc' = [apProc EXCEPT ![p].pc = "redb_update_meta",
                                ![p].txn = Redb_txn_insert_event(@, ApKey, apProc[p].seq,
                                                                 ApData, EvTimestamp, EvNodeId)]
    /\ UNCHANGED <<apStore, apLog>>
    /\ UNCHANGED notAp

\* meta.insert(meta_key, seq.to_be_bytes())
ApRedbUpdateMeta(p) ==
    /\ apProc[p].pc = "redb_update_meta"
    /\ apProc' = [apProc EXCEPT ![p].pc = "redb_commit",
                                ![p].txn = Redb_txn_update_meta(@, ApKey, apProc[p].seq)]
    /\ UNCHANGED <<apStore, apLog>>
    /\ UNCHANGED notAp

\* txn.commit() ; Ok(seq)
ApRedbCommit(p) ==
    /\ apProc[p].pc = "redb_commit"
    /\ apStore' = [apStore EXCEPT !.redb = Redb_txn_commit(@, apProc[p].txn, p)]
    /\ apLog' = [apLog EXCEPT !["redb"] = Append(@, <<p, apProc[p].seq>>)]
    /\ apProc' = [apProc EXCEPT ![p] = ApIdle]
    /\ UNCHANGED notAp

\* SqliteStore::append_event : let conn = self.lock()
ApSqliteLock(p) ==
    /\ apProc[p].pc = "idle"
    /\ ApCalls < ApMaxCalls
    /\ Sqlite_lock_ready(apStore.sqlite)
    /\ apStore' = [apStore EXCEPT !.sqlite.holder = p]
    /\ apProc' = [apProc EXCEPT ![p].pc = "sqlite_execute"]
    /\ UNCHANGED apLog
    /\ UNCHANGED notAp

\* conn.execute("INSERT INTO crdt_events ..")
ApSqliteExecute(p) ==
    /\ apProc[p].pc = "sqlite_execute"
    /\ apStore' = [apStore EXCEPT !.sqlite =
                     Sqlite_execute_insert(@, ApKey, ApData, EvTimestamp, EvNodeId)]
    /\ apProc' = [apProc EXCEPT ![p].pc = "sqlite_rowid"]
    /\ UNCHANGED apLog
    /\ UNCHANGED notAp

\* Ok(conn.last_insert_rowid() as u64) ; the guard is dropped on return
ApSqliteReturn(p) ==
    /\ apProc[p].pc = "sqlite_rowid"
    /\ apLog' = [apLog EXCEPT !["sqlite"] = Append(@, <<p, apStore.sqlite.last_insert_rowid>>)]
    /\ apStore' = [apStore EXCEPT !.sqlite.holder = IF @ = p THEN NoAppender ELSE @]
    /\ apProc' = [apProc EXCEPT ![p] = ApIdle]
    /\ UNCHANGED notAp

ApNext ==
    \E p \in Appenders :
        \/ ApRedbBegin(p)
        \/ ApRedbReadMeta(p)
        \/ ApRedbInsertEvent(p)
        \/ ApRedbUpdateMeta(p)
        \/ ApRedbCommit(p)
        \/ ApSqliteLock(p)
        \/ ApSqliteExecute(p)
        \/ ApSqliteReturn(p)

SpecAp == Init /\ [][ApNext]_vars

\* ---- Concurrent compactions over one SQLite file

notCcStore ==
    <<lwwVars, rgaVars, textVars, orsVars, mvVars, tpsVars, gcVars, pnVars, hlcVars, dbVars,
      memStore, redbStore, evLog, evLast, apVars, wbVars>>

CcAppend ==
    /\ Cardinality(cc.appended) < CcMaxAppends
    /\ \E data \in EvData :
         LET out == Sqlite_append_event(sqliteStore, CcKey, data, EvTimestamp, EvNodeId)
         IN  /\ sqliteStore' = out.store
             /\ cc' = [cc EXCEPT !.appended = @ \cup {out.ret}]
    /\ UNCHANGED notCcStore

CcEventsSince(p) ==
    /\ cc.proc[p].pc = "idle"
    /\ cc.compacts < CcMaxCompacts
    /\ cc' = [cc EXCEPT !.proc[p] = Compact_events_since(sqliteStore, CcKey),
                        !.compacts = @ + 1]
    /\ UNCHANGED sqliteStore
    /\ UNCHANGED notCcStore

CcSaveSnapshot(p) ==
    /\ cc.proc[p].pc = "save_snapshot"
    /\ \E version \in EvSnapshotVersions :
         sqliteStore' = Compact_save_snapshot(sqliteStore, CcKey, CcState(p),
                                              cc.proc[p].max_seq, version)
    /\ cc' = [cc EXCEPT !.proc[p].pc = "truncate_events_before"]
    /\ UNCHANGED notCcStore

CcTruncate(p) ==
    /\ cc.proc[p].pc = "truncate_events_before"
    /\ sqliteStore' = Compact_truncate(sqliteStore, CcKey, cc.proc[p].max_seq)
    /\ cc' = [cc EXCEPT !.proc[p] = CcIdle]
    /\ UNCHANGED notCcStore

CcNext ==
    \/ CcAppend
    \/ \E p \in Compactors : CcEventsSince(p)
    \/ \E p \in Compactors : CcSaveSnapshot(p)
    \/ \E p \in Compactors : CcTruncate(p)

SpecCc == Init /\ [][CcNext]_vars

\* ---- Two facades over one backend

notWbDb ==
    <<lwwVars, rgaVars, textVars, orsVars, mvVars, tpsVars, gcVars, pnVars, hlcVars,
      evVars, apVars, ccVars>>

WbSave(p) ==
    /\ wbFacade.proc[p].pc = "idle"
    /\ wbFacade.calls < WbMaxCalls
    /\ \E value \in WbValues :
         dbStore' = Db_save_ns(dbCfg, dbStore, value, FALSE).store
    /\ wbFacade' = [proc |-> [q \in Facades |->
                                IF q # p /\ wbFacade.proc[q].pc = "loaded"
                                THEN [wbFacade.proc[q] EXCEPT !.stale = TRUE]
                                ELSE wbFacade.proc[q]],
                    calls |-> wbFacade.calls + 1]
    /\ UNCHANGED <<dbCfg, dbLast>>
    /\ UNCHANGED notWbDb

WbLoadGet(p) ==
    /\ wbFacade.proc[p].pc = "idle"
    /\ wbFacade.calls < WbMaxCalls
    /\ wbFacade' = [wbFacade EXCEPT !.proc[p] = Db_load_ns_get(dbStore),
                                    !.calls = @ + 1]
    /\ UNCHANGED dbVars
    /\ UNCHANGED notWbDb

WbLoadRest(p) ==
    /\ wbFacade.proc[p].pc = "loaded"
    /\ LET out == Db_load_ns_rest(dbCfg, wbFacade.proc[p].raw, WbSchemaVersion)
       IN  /\ dbStore' = IF out.put # <<>> THEN out.put ELSE dbStore
           /\ dbLast' = [op |-> "load", schema_version |-> WbSchemaVersion,
                         before |-> wbFacade.proc[p].raw,
                         getFails |-> FALSE, putFails |-> FALSE, ret |-> out.ret]
    /\ wbFacade' = [wbFacade EXCEPT !.proc[p] = WbIdle]
    /\ UNCHANGED dbCfg
    /\ UNCHANGED notWbDb

WbNext ==
    \/ \E p \in Facades : WbSave(p)
    \/ \E p \in Facades : WbLoadGet(p)
    \/ \E p \in Facades : WbLoadRest(p)

WbDbInit ==
    /\ dbCfg = WbDb
    /\ dbStore = <<>>
    /\ dbLast = NoCall

InitWb == LwwIdle /\ RgaInit /\ TextInit /\ OrsInit /\ MvInit /\ TpsInit /\ GcInit /\ PnInit /\ HlcInit /\ WbDbInit /\ EvInit /\ ApInit /\ CcInit /\ WbInit

SpecWb == InitWb /\ [][WbNext]_vars

(***************************************************************************)
(* Properties.                                                             *)
(***************************************************************************)

\* C1: LWW-Register merge is associative on the observable value: for any three
\* registers with pairwise distinct actors, merging b and then c into a gives
\* the same value() as merging into a the result of merging c into b.
LwwMergeAssociative ==
    \A a \in Actors : \A b \in Actors \ {a} : \A c \in Actors \ {a, b} :
        LWW_value(LWW_merge(LWW_merge(lww[a], lww[b]), lww[c]))
          = LWW_value(LWW_merge(lww[a], LWW_merge(lww[b], lww[c])))

\* The 1-based place of id in the sequence s (0 when absent).
Pos(s, id) ==
    IF \E i \in 1..Len(s) : s[i] = id
    THEN CHOOSE i \in 1..Len(s) : s[i] = id
    ELSE 0

\* C2: two Rga replicas that hold the same visible sequence each insert one
\* element at the same visible index i and merge each other's state; both
\* end with the same sequence, every element that was before index i precedes
\* both new elements, and every element that was at index i or later follows
\* both, whichever actors authored the shared elements.
RgaConcurrentInsertOrder ==
    \A a \in Actors : \A b \in Actors \ {a} :
        Rga_visible_sequence(rga[a]) = Rga_visible_sequence(rga[b]) =>
            \A i \in 0..Rga_len(rga[a]) : \A v \in RgaValues :
                LET old == Rga_visible_sequence(rga[a])
                    ra  == Rga_insert_at(rga[a], i, v)
                    rb  == Rga_insert_at(rga[b], i, v)
                    ma  == Rga_visible_sequence(Rga_merge(ra, rb))
                    mb  == Rga_visible_sequence(Rga_merge(rb, ra))
                    ida == <<a, ra.counter>>
                    idb == <<b, rb.counter>>
                IN  /\ ma = mb
                    /\ Len(ma) = Len(old) + 2
                    /\ \A k \in 1..i :
                          Pos(ma, old[k]) < Pos(ma, ida) /\ Pos(ma, old[k]) < Pos(ma, idb)
                    /\ \A k \in (i + 1)..Len(old) :
                          Pos(ma, old[k]) > Pos(ma, ida) /\ Pos(ma, old[k]) > Pos(ma, idb)

\* C3: after insert_at(i, v) with i <= len() on a replica in any reachable
\* state, the new element is at visible index i: get(i) returns v and len()
\* has grown by exactly one.
RgaInsertAtIndex ==
    \A a \in Actors : \A i \in 0..Rga_len(rga[a]) : \A v \in RgaValues :
        LET r == Rga_insert_at(rga[a], i, v)
        IN  /\ Rga_len(r) = Rga_len(rga[a]) + 1
            /\ Rga_get(r, i) = v
            /\ Rga_visible_sequence(r)[i + 1] = <<a, r.counter>>

\* What a reader of a replica sees: the visible ids and their values.
RgaView(r) == <<Rga_visible_sequence(r), Rga_to_vec(r)>>

\* C4: Rga merge is order-independent: replicas that have merged the same set
\* of replica states hold the same visible sequence, whatever the order, the
\* grouping or the repetition of the merges; replicas holding the same nodes
\* and tombstones show the same sequence.
RgaMergeOrderIndependent ==
    LET m2 == [p \in Actors \X Actors |-> Rga_merge(rga[p[1]], rga[p[2]])]
        \* (x merged with y) merged with z, and x merged with (y merged with z)
        left(x, y, z)  == Rga_merge(m2[<<x, y>>], rga[z])
        right(x, y, z) == Rga_merge(rga[x], m2[<<y, z>>])
    IN  /\ \A a \in Actors : \A b \in Actors \ {a} :
              /\ RgaView(m2[<<a, b>>]) = RgaView(m2[<<b, a>>])
              /\ Rga_merge(m2[<<a, b>>], rga[b]) = m2[<<a, b>>]
              /\ \A c \in Actors \ {a, b} :
                    /\ RgaView(left(a, b, c)) = RgaView(left(1, 2, 3))
                    /\ RgaView(right(a, b, c)) = RgaView(left(1, 2, 3))
        /\ \A a \in Actors : \A b \in Actors \ {a} :
              (rga[a].nodes = rga[b].nodes /\ rga[a].tombstones = rga[b].tombstones)
                  => RgaView(rga[a]) = RgaView(rga[b])

\* Three replicas each hold a node the other two lack, one of them deleted
\* somewhere, and two of them have already merged the third.
RgaThreeWayMergeReached ==
    \E a \in Actors : \E b \in Actors \ {a} : \E c \in Actors \ {a, b} :
        /\ \E n \in DOMAIN rga[a].nodes : n[1] = a
        /\ \E n \in DOMAIN rga[b].nodes : n[1] = b
        /\ \E n \in DOMAIN rga[c].nodes : n[1] = c
        /\ rga[a].nodes = rga[b].nodes /\ Cardinality(DOMAIN rga[a].nodes) = 3
        /\ rga[a].tombstones = rga[b].tombstones
        /\ rga[a].tombstones # {}
        /\ DOMAIN rga[c].nodes # DOMAIN rga[a].nodes

\* The visible ids of a replica, in order, next to the string it renders.
TextView(t) ==
    <<Text_to_string(t),
      LET vis == SelectSeq(t.elements, LAMBDA e : ~e.deleted)
      IN  [i \in 1..Len(vis) |-> vis[i].id]>>

\* C5: TextCrdt merge is order-independent on the rendered text: for replicas
\* with distinct actors in any reachable state, a.merge(b) and b.merge(a)
\* render the same string, and once every replica has merged every other
\* replica's state all replicas render the same string, whatever the order.
TextMergeOrderIndependent ==
    LET t1  == text[1]
        t2  == text[2]
        t3  == text[3]
        m12 == Text_merge(t1, t2)
        m21 == Text_merge(t2, t1)
        m13 == Text_merge(t1, t3)
        m31 == Text_merge(t3, t1)
        m23 == Text_merge(t2, t3)
        m32 == Text_merge(t3, t2)
        all == TextView(Text_merge(m12, t3))
    IN  /\ TextView(m12) = TextView(m21)
        /\ TextView(m13) = TextView(m31)
        /\ TextView(m23) = TextView(m32)
        /\ TextView(Text_merge(m13, t2)) = all
        /\ TextView(Text_merge(m21, t3)) = all
        /\ TextView(Text_merge(m23, t1)) = all
        /\ TextView(Text_merge(m31, t2)) = all
        /\ TextView(Text_merge(m32, t1)) = all

\* Three replicas have each inserted, one character has been removed, and a
\* replica that has merged the other two renders all the remaining characters.
TextThreeWayMergeReached ==
    \E a \in Actors : \E b \in Actors \ {a} : \E c \in Actors \ {a, b} :
        /\ \E i \in 1..Len(text[a].elements) : text[a].elements[i].id[1] = a
        /\ \E i \in 1..Len(text[a].elements) : text[a].elements[i].id[1] = b
        /\ \E i \in 1..Len(text[a].elements) : text[a].elements[i].id[1] = c
        /\ \E i \in 1..Len(text[a].elements) : text[a].elements[i].deleted
        /\ Len(Text_to_string(text[a])) = 2
        /\ Len(text[b].elements) < 3
        /\ Len(text[c].elements) < 3

\* Every tag a replica has observed, live or tombstoned.
OrsSeen(r) == r.tombstones \cup UNION {r.elements[v] : v \in OrsValues}

\* C6: OR-Set add wins: when replica a holds x under a tag that replica b has
\* never observed, and b removes x, then after the two replicas merge each
\* other (in either order) both contain x.
OrsAddWins ==
    \A a \in Actors : \A b \in Actors \ {a} : \A x \in OrsValues :
        (\E t \in ors[a].elements[x] : t \notin OrsSeen(ors[b])) =>
            LET removed == ORSet_remove(ors[b], x)
                ba == ORSet_merge(removed, ors[a])
                ab == ORSet_merge(ors[a], removed)
            IN  /\ ~ORSet_contains(removed, x)
                /\ ORSet_contains(ba, x)
                /\ ORSet_contains(ab, x)
                /\ ORSet_contains(ORSet_merge(ab, ba), x)
                /\ ORSet_contains(ORSet_merge(ba, ab), x)

\* Replica b has itself removed x (it tombstoned its own tag, which a still
\* holds live under x; nobody else holds a tombstone) and a has since added x
\* again under a tag b has not observed; merging a into b brings x back.
OrsConcurrentAddRemoveReached ==
    \E a \in Actors : \E b \in Actors \ {a} : \E x \in OrsValues :
        /\ \E t \in ors[a].elements[x] : t[1] = a /\ t \notin OrsSeen(ors[b])
        /\ \E t2 \in ors[b].tombstones : t2[1] = b /\ t2 \in ors[a].elements[x]
        /\ \A c \in Actors \ {b} : ors[c].tombstones = {}
        /\ ~ORSet_contains(ors[b], x)
        /\ ORSet_contains(ORSet_merge(ors[b], ors[a]), x)

\* C7: OR-Set merge is commutative, associative and idempotent on membership:
\* the set of contained elements after merging is the same for every order
\* and grouping of the merges, and merging the same state a second time
\* changes nothing.
OrsMergeSemilattice ==
    \A a \in Actors : \A b \in Actors \ {a} :
        LET ab == ORSet_merge(ors[a], ors[b])
            ba == ORSet_merge(ors[b], ors[a])
        IN  /\ ORSet_members(ab) = ORSet_members(ba)
            /\ ORSet_merge(ab, ors[b]) = ab
            /\ \A c \in Actors \ {a, b} :
                  LET ab_c == ORSet_members(ORSet_merge(ab, ors[c]))
                  IN  /\ ab_c = ORSet_members(ORSet_merge(ors[a], ORSet_merge(ors[b], ors[c])))
                      /\ ab_c = ORSet_members(ORSet_merge(ORSet_merge(ors[c], ors[b]), ors[a]))

\* Three replicas differ: a holds a live tag b has not observed, b holds a
\* tombstone for a tag that is live on c, and merging changes what a contains.
OrsThreeWayMergeReached ==
    \E a \in Actors : \E b \in Actors \ {a} : \E c \in Actors \ {a, b} :
        /\ \E x \in OrsValues : \E t \in ors[a].elements[x] : t \notin OrsSeen(ors[b])
        /\ \E x \in OrsValues : ors[c].elements[x] \cap ors[b].tombstones # {}
        /\ ORSet_members(ORSet_merge(ORSet_merge(ors[c], ors[b]), ors[a]))
             # ORSet_members(ors[c])
        /\ ORSet_members(ORSet_merge(ors[c], ors[a])) # ORSet_members(ORSet_merge(ors[c], ors[b]))

\* C8: OR-Set delta equivalence: for any two reachable states a and b, applying
\* a.delta(b) to b gives the same membership as b.merge(a).
OrsDeltaEquivalence ==
    \A a \in Actors : \A b \in Actors \ {a} :
        ORSet_members(ORSet_apply_delta(ors[b], ORSet_delta(ors[a], ors[b])))
          = ORSet_members(ORSet_merge(ors[b], ors[a]))

\* A delta that carries both an addition and a tombstone b lacks, and whose
\* application to b adds one element and removes another.
OrsDeltaBothWaysReached ==
    \E a \in Actors : \E b \in Actors \ {a} :
        LET d     == ORSet_delta(ors[a], ors[b])
            after == ORSet_members(ORSet_apply_delta(ors[b], d))
        IN  /\ d.tombstones # {}
            /\ \E x \in OrsValues : d.additions[x] # {}
            /\ after \ ORSet_members(ors[b]) # {}
            /\ ORSet_members(ors[b]) \ after # {}

\* The entries a register holds, as a set.
MvHeld(r) == {r.entries[i] : i \in 1..Len(r.entries)}

\* vv1 follows vv2 causally: it dominates it and differs from it.
MvFollows(vv1, vv2) == dominates(vv1, vv2) /\ vv1 # vv2

\* A write that causally follows entry e has been performed.
MvSuperseded(e) == \E w \in mvWrites : MvFollows(w.vv, e.vv)

\* Entry e was written by a set on replica a: among the writes carrying a's
\* counter value it is the one all the others have observed.
MvWrittenBy(e, a) ==
    /\ e.vv[a] > 0
    /\ \A g \in mvWrites : g.vv[a] = e.vv[a] => dominates(g.vv, e.vv)

\* C9: MV-Register keeps concurrent writes: when replicas a and b have each
\* called set without either having merged the other's write, the register
\* holds both written entries after merging in either direction; and a held
\* entry stays held through every further merge, until a set performed by a
\* replica that has it supersedes it.
MvConcurrentWritesKept ==
    /\ [](\A a \in Actors : \A b \in Actors \ {a} :
            \A ea \in mvWrites : \A eb \in mvWrites :
                ( /\ MvWrittenBy(ea, a) /\ ea.vv[a] = mv[a].version[a]
                  /\ MvWrittenBy(eb, b) /\ eb.vv[b] = mv[b].version[b]
                  /\ mv[a].version[b] < eb.vv[b]
                  /\ mv[b].version[a] < ea.vv[a]
                  /\ ~MvSuperseded(ea) /\ ~MvSuperseded(eb) )
                => /\ {ea, eb} \subseteq MvHeld(MV_merge(mv[a], mv[b]))
                   /\ {ea, eb} \subseteq MvHeld(MV_merge(mv[b], mv[a]))
                   /\ MV_is_conflicted(MV_merge(mv[a], mv[b])))
    /\ [][\A r \in Actors : \A e \in MvHeld(mv[r]) :
            e \in MvHeld(mv'[r]) \/ MvSuperseded(e)']_vars

\* Two replicas have written concurrently and each has merged the other: both
\* hold both entries, which no later write supersedes.
MvBothHoldConflictReached ==
    \E a \in Actors : \E b \in Actors \ {a} :
        /\ Len(mv[a].entries) = 2
        /\ MvHeld(mv[a]) = MvHeld(mv[b])
        /\ \E ea \in MvHeld(mv[a]) : \E eb \in MvHeld(mv[a]) :
              /\ ea.vv[a] > 0 /\ ea.vv[b] = 0
              /\ eb.vv[b] > 0 /\ eb.vv[a] = 0
              /\ ~MvSuperseded(ea) /\ ~MvSuperseded(eb)

\* C10 as stated: MV-Register causal supersession: when replica w has called
\* set(v) after having merged a state that holds entry e, every replica that
\* afterwards merges w's state no longer holds e and holds v instead, also
\* when it still held e before the merge.
MvSupersededHoldsNewValue ==
    \A w \in Actors : \A r \in Actors \ {w} :
        \A ev \in MvHeld(mv[w]) : \A e \in mvWrites :
            (MvWrittenBy(ev, w) /\ MvFollows(ev.vv, e.vv)) =>
                LET merged == MV_merge(mv[r], mv[w])
                IN  e \notin MvHeld(merged) /\ ev.value \in MV_values(merged)

\* C10: MV-Register causal supersession: when a replica holds an entry ev
\* written by a set that had observed entry e, every replica that merges that
\* state no longer holds e afterwards, also when it still held e before the
\* merge; it holds ev instead, unless it has already observed a write that
\* supersedes ev, in which case it holds a write that follows ev.
MvCausalSupersession ==
    \A w \in Actors : \A r \in Actors \ {w} :
        \A ev \in MvHeld(mv[w]) : \A e \in mvWrites :
            MvFollows(ev.vv, e.vv) =>
                LET merged == MvHeld(MV_merge(mv[r], mv[w]))
                IN  /\ e \notin merged
                    /\ ~MvSuperseded(ev) => ev \in merged
                    /\ e \in MvHeld(mv[r]) => ev \in merged
                    /\ ev \in merged \/ \E g \in merged : MvFollows(g.vv, ev.vv)

\* Replica r still holds e next to a concurrent entry, while w holds a write
\* made after observing e; merging w into r replaces e and keeps the other.
MvSupersededStillHeldReached ==
    \E w \in Actors : \E r \in Actors \ {w} :
        \E ev \in MvHeld(mv[w]) : \E e \in MvHeld(mv[r]) :
            /\ MvFollows(ev.vv, e.vv)
            /\ ev.vv[w] = e.vv[w] + 1
            /\ Len(mv[r].entries) = 2
            /\ Len(MV_merge(mv[r], mv[w]).entries) = 2
            /\ ev \in MvHeld(MV_merge(mv[r], mv[w]))

\* C11: MV-Register merge is commutative, associative and idempotent on
\* values(): for reachable states of replicas with distinct actors, values()
\* after merging is the same for every order and grouping of the merges, and
\* merging the same state again leaves values() unchanged.
MvMergeSemilattice ==
    \A a \in Actors : \A b \in Actors \ {a} :
        LET ab == MV_merge(mv[a], mv[b])
            ba == MV_merge(mv[b], mv[a])
        IN  /\ MV_values(ab) = MV_values(ba)
            /\ MV_values(MV_merge(ab, mv[b])) = MV_values(ab)
            /\ MV_values(MV_merge(mv[a], mv[a])) = MV_values(mv[a])
            /\ \A c \in Actors \ {a, b} :
                  LET ab_c == MV_values(MV_merge(ab, mv[c]))
                  IN  /\ ab_c = MV_values(MV_merge(mv[a], MV_merge(mv[b], mv[c])))
                      /\ ab_c = MV_values(MV_merge(MV_merge(mv[c], mv[b]), mv[a]))

\* Three replicas hold three different single writes, one of which follows
\* another, so the three-way merge both drops an entry and keeps a conflict.
MvThreeWayMergeReached ==
    \E a \in Actors : \E b \in Actors \ {a} : \E c \in Actors \ {a, b} :
        /\ Len(mv[a].entries) = 1 /\ Len(mv[b].entries) = 1 /\ Len(mv[c].entries) = 1
        /\ MvFollows(mv[b].entries[1].vv, mv[a].entries[1].vv)
        /\ ~dominates(mv[b].version, mv[c].version)
        /\ ~dominates(mv[c].version, mv[b].version)
        /\ mv[b].entries[1].value # mv[c].entries[1].value
        /\ Len(MV_merge(MV_merge(mv[a], mv[b]), mv[c]).entries) = 2

\* C12: 2P-Set removal is permanent: once remove(x) has succeeded on some
\* replica, every replica that has merged that replica's state, directly or
\* transitively, has contains(x) false from then on, whatever inserts of x or
\* merges with other replicas follow.
TpsRemovalPermanent ==
    \A r \in Actors : \A x \in tpsRemoved[r] :
        /\ ~TwoPSet_contains(tps[r], x)
        /\ ~TwoPSet_contains(TwoPSet_insert(tps[r], x), x)
        /\ \A q \in Actors :
             /\ ~TwoPSet_contains(TwoPSet_merge(tps[r], tps[q]), x)
             /\ ~TwoPSet_contains(TwoPSet_merge(tps[q], tps[r]), x)

\* Replica r has observed the removal of x while replica q, which has not,
\* still contains x; merging q into r does not bring x back.
TpsRemovalSpreadReached ==
    \E r \in Actors : \E q \in Actors \ {r} : \E x \in TpsValues :
        /\ x \in tpsRemoved[r]
        /\ x \notin tpsRemoved[q]
        /\ TwoPSet_contains(tps[q], x)
        /\ ~TwoPSet_contains(TwoPSet_merge(tps[r], tps[q]), x)

\* The state of replica r after merging the states of q1 and then q2.
GcMerged(r, q1, q2) == GCounter_merge(GCounter_merge(gc[r], gc[q1]), gc[q2])

\* C13: G-Counter convergence: for replicas with distinct actors that only
\* increment their own entry, once every replica has merged every other
\* replica's state (in any order, any number of times) every replica's value()
\* equals the total of all increments performed on all replicas.
GcConvergesToTotal ==
    /\ (\A r \in Actors : \A q \in Actors : GCounter_merge(gc[r], gc[q]) = gc[r])
          => \A r \in Actors : GCounter_value(gc[r]) = gcTotal
    /\ \A r \in Actors : \A q1 \in Actors \ {r} : \A q2 \in Actors \ {r, q1} :
          /\ GCounter_value(GcMerged(r, q1, q2)) = gcTotal
          /\ GCounter_value(GcMerged(r, q2, q1)) = gcTotal
          /\ GCounter_value(GCounter_merge(GcMerged(r, q1, q2), gc[q1])) = gcTotal
          /\ GCounter_value(GCounter_merge(gc[r], GCounter_merge(gc[q1], gc[q2]))) = gcTotal

\* Every replica has incremented and every replica has merged every other
\* replica's state: all hold the same three non-zero counts.
GcAllMergedReached ==
    /\ \A r \in Actors : \A a \in Actors : gc[r].counts[a] > 0
    /\ \A r \in Actors : gc[r].counts = gc[1].counts
    /\ GCounter_value(gc[1]) = gcTotal
    /\ gcTotal = GcMaxTotal

\* C14: counter delta equivalence: for any two G-Counter states a and b, and
\* likewise any two PN-Counter states, applying a.delta(b) to b gives the same
\* value() as b.merge(a).
CounterDeltaEquivalence ==
    \A a \in Actors : \A b \in Actors \ {a} :
        /\ PNCounter_value(PNCounter_apply_delta(pn[b], PNCounter_delta(pn[a], pn[b])))
             = PNCounter_value(PNCounter_merge(pn[b], pn[a]))
        /\ \A side \in {"increments", "decrements"} :
             GCounter_value(GCounter_apply_delta(pn[b][side],
                                GCounter_delta(pn[a][side], pn[b][side])))
               = GCounter_value(GCounter_merge(pn[b][side], pn[a][side]))

\* Replica a is ahead of b on one actor's increments and behind on another's,
\* and ahead on a decrement: the delta carries some entries and leaves others
\* out, and applying it changes b's value.
CounterDeltaPartialReached ==
    \E a \in Actors : \E b \in Actors \ {a} :
        LET d == PNCounter_delta(pn[a], pn[b])
        IN  /\ \E k \in Actors : d.increments.counts[k] > 0 /\ pn[b].increments.counts[k] > 0
            /\ \E k \in Actors : pn[a].increments.counts[k] + pn[a].decrements.counts[k] > 0
                                   /\ d.increments.counts[k] = 0 /\ d.decrements.counts[k] = 0
            /\ PNCounter_value(PNCounter_apply_delta(pn[b], d)) # PNCounter_value(pn[b])

\* C15: LWW-Register merge is deterministic in both directions: for any two
\* registers with distinct actors, a.merge(b) and b.merge(a) end with the same
\* value and timestamp, namely those of the register whose (timestamp, actor)
\* pair is lexicographically greater.
LwwMergeDeterministic ==
    \A a \in Actors : \A b \in Actors \ {a} :
        LET ab == LWW_merge(lww[a], lww[b])
            ba == LWW_merge(lww[b], lww[a])
            w  == IF \/ lww[b].timestamp > lww[a].timestamp
                     \/ (lww[b].timestamp = lww[a].timestamp /\ lww[b].actor > lww[a].actor)
                  THEN lww[b] ELSE lww[a]
        IN  /\ ab.value = w.value /\ ab.timestamp = w.timestamp
            /\ ba.value = w.value /\ ba.timestamp = w.timestamp

\* Two registers tie on the timestamp with different values, and the register
\* of the smaller actor takes the other's value.
LwwTieReached ==
    \E a \in Actors : \E b \in Actors \ {a} :
        /\ lww[a].timestamp = lww[b].timestamp
        /\ lww[a].value # lww[b].value
        /\ a < b
        /\ LWW_merge(lww[a], lww[b]).value = lww[b].value
        /\ LWW_merge(lww[b], lww[a]) = lww[b]

\* C16: HLC monotonicity: for any interleaving of now() and receive(remote)
\* calls on one clock, with any behaviour of the physical time source and any
\* remote timestamps, each returned timestamp is strictly greater, in
\* (physical, logical, node) order, than every timestamp returned before.
HlcMonotonic ==
    \A i \in 1..Len(hlcLog) : \A j \in 1..Len(hlcLog) :
        i < j => TsLess(hlcLog[i], hlcLog[j])

\* C17: HLC receive dominates its inputs: for every clock state and every
\* remote timestamp, receive(remote) returns a timestamp strictly greater than
\* remote and strictly greater than the clock's last value before the call.
HlcReceiveDominates ==
    \A pt \in HlcTimes : \A remote \in HlcRemotes :
        LET ret == Hlc_receive(hlc, remote, pt).last
        IN  TsLess(remote, ret) /\ TsLess(hlc.last, ret)


(***************************************************************************)
(* The facade: lazy migration on load.                                     *)
(***************************************************************************)
\* The envelope a load of these bytes decodes; NoEnvelope when there is none.
DbStoredEnvelope(store) ==
    IF store # <<>> /\ Envelope_is_versioned(store[1]) /\ Envelope_from_bytes(store[1]).ok
    THEN Envelope_from_bytes(store[1]).env
    ELSE NoEnvelope

\* A load as type version T of these bytes hands the payload to the engine.
DbInvokesEngine(db, store, T) ==
    LET envelope == DbStoredEnvelope(store)
    IN  /\ envelope # NoEnvelope
        /\ envelope.version # T
        /\ Engine_needs_migration(db.migration_engine, envelope.version)

\* What the engine makes of the stored payload.
DbEngineOutcome(db, store) ==
    LET envelope == DbStoredEnvelope(store)
    IN  Engine_migrate_to_current(db.migration_engine, envelope.payload, envelope.version)

\* The last call was a load that read the backend and migrated an entry
\* stored at a version older than its type's.
DbLastLoadMigratedOlder ==
    /\ dbLast.op = "load"
    /\ ~dbLast.getFails
    /\ DbInvokesEngine(dbCfg, dbLast.before, dbLast.schema_version)
    /\ DbStoredEnvelope(dbLast.before).version < dbLast.schema_version
    /\ DbEngineOutcome(dbCfg, dbLast.before).kind = "ok"

\* C18: best-effort write-back.  After a load that migrated an entry stored
\* at an older version and whose backend write of the migrated envelope
\* failed, the load has returned the migrated value, the stored bytes are
\* the old ones, and a next load of that type migrates again.
DbWriteBackBestEffort ==
    (DbLastLoadMigratedOlder /\ dbCfg.write_back_on_read /\ dbLast.putFails) =>
        /\ dbLast.ret =
             Db_load_value(DbEngineOutcome(dbCfg, dbLast.before).data, dbLast.schema_version)
        /\ dbLast.ret.kind = "OkSome"
        /\ dbStore = dbLast.before
        /\ DbInvokesEngine(dbCfg, dbStore, dbLast.schema_version)

\* The part of C18 about the backend alone: the stored bytes are the old
\* ones and a next load migrates again.
DbFailedWriteBackKeepsBytes ==
    (DbLastLoadMigratedOlder /\ dbCfg.write_back_on_read /\ dbLast.putFails) =>
        /\ dbStore = dbLast.before
        /\ DbInvokesEngine(dbCfg, dbStore, dbLast.schema_version)


\* The last call was a load that read the backend and whose call of the
\* engine returned an error.
DbLastLoadEngineFailed ==
    /\ dbLast.op = "load"
    /\ ~dbLast.getFails
    /\ DbInvokesEngine(dbCfg, dbLast.before, dbLast.schema_version)
    /\ DbEngineOutcome(dbCfg, dbLast.before).kind = "err"

\* C19: no partial write-back.  After a load during which the migration
\* engine failed (a missing step, a stored version newer than the engine's
\* current version, or a step returning an error), the load has returned a
\* migration error and the stored bytes are exactly those before the call.
DbNoPartialWriteBack ==
    DbLastLoadEngineFailed =>
        /\ DbEngineOutcome(dbCfg, dbLast.before).err \in
               {"GapInChain", "FutureVersion", "StepFailed"}
        /\ dbLast.ret =
               DbReturn("Err", "Migration", DbEngineOutcome(dbCfg, dbLast.before).err, NoValue_T)
        /\ dbStore = dbLast.before

\* A load with write-back enabled failed at the second step of its chain,
\* after the first step had migrated the payload.
DbSecondStepFailedReached ==
    /\ DbLastLoadEngineFailed
    /\ dbCfg.write_back_on_read
    /\ DbEngineOutcome(dbCfg, dbLast.before).err = "StepFailed"
    /\ LET engine == dbCfg.migration_engine
           first == Engine_find_step(engine, DbStoredEnvelope(dbLast.before).version)
       IN  first # 0 /\ ~engine.steps[first].fails


\* The engine's chain is complete from the stored version: validate_chain
\* passes and each step leads to the next version and returns no error.
DbChainComplete(db, store) ==
    LET engine == db.migration_engine
        from == DbStoredEnvelope(store).version
    IN  /\ Engine_validate_chain(engine, from)
        /\ \A version \in from..(engine.current_version - 1) :
              LET step == engine.steps[Engine_find_step(engine, version)]
              IN  step.target = version + 1 /\ ~step.fails

\* A version-T load of these bytes is a load of an entry stored at an older
\* version by a facade whose engine targets T, with a complete chain.
DbLazyMigrationCase(db, store, T) ==
    /\ DbStoredEnvelope(store) # NoEnvelope
    /\ DbStoredEnvelope(store).version < T
    /\ Deserialize(DbStoredEnvelope(store).payload, DbStoredEnvelope(store).version).ok
    /\ db.migration_engine.current_version = T
    /\ db.write_back_on_read
    /\ DbChainComplete(db, store)

\* The value an entry holds, read in the schema of version T.
DbMigratedValue(store, T) ==
    [datum |-> DbStoredEnvelope(store).payload[1], version |-> T]

\* C20: lazy migration with write-back is idempotent.  With write-back
\* enabled and a complete chain, a load of an entry stored at an older
\* version (the backend serving its get and put) has returned the migrated
\* value and left an envelope at the type's version with the migrated
\* payload; every load after it returns the same value and leaves the
\* stored bytes as they are.
DbLazyMigrationIdempotent ==
    (/\ dbLast.op = "load"
     /\ ~dbLast.getFails
     /\ ~dbLast.putFails
     /\ DbLazyMigrationCase(dbCfg, dbLast.before, dbLast.schema_version)) =>
        LET T == dbLast.schema_version
            old == DbStoredEnvelope(dbLast.before)
            value == DbMigratedValue(dbLast.before, T)
        IN  /\ dbLast.ret = DbReturn("OkSome", "", "", value)
            /\ dbStore = <<Envelope_to_bytes(Envelope_new(T, old.crdt_type, Serialize(value)))>>
            /\ \A putFails \in BOOLEAN :
                  LET again == Db_load_ns(dbCfg, dbStore, T, FALSE, putFails)
                      third == Db_load_ns(dbCfg, again.store, T, FALSE, putFails)
                  IN  /\ again.ret = dbLast.ret
                      /\ again.store = dbStore
                      /\ third = again

\* A load has migrated an entry through a chain of two steps and written it
\* back.
DbTwoStepWriteBackReached ==
    /\ dbLast.op = "load"
    /\ ~dbLast.getFails
    /\ ~dbLast.putFails
    /\ DbLazyMigrationCase(dbCfg, dbLast.before, dbLast.schema_version)
    /\ DbStoredEnvelope(dbLast.before).version + 2 = dbLast.schema_version
    /\ dbStore # dbLast.before

\* ---- Event log

\* The sequences of the events a backend holds for entity k: the vector of
\* the memory store, the rows of the entity in sqlite, the entries under the
\* entity's own event keys in redb.
EvHeld(b, store, k) ==
    CASE b = "memory" -> {store.events[k][i].sequence : i \in 1..Len(store.events[k])}
      [] b = "redb" -> {n \in EvSequences :
                          Table_get(store.events, Redb_event_key(k[1], k[2], n)) # {}}
      [] b = "sqlite" -> {r.sequence : r \in {q \in store.events :
                                                q.namespace = k[1] /\ q.entity_id = k[2]}}

\* A step that appended an event to entity k gave it, in every backend, a
\* sequence above the one the entity's previous append returned (evLog) and
\* above every sequence the entity still held, and holds the event under it.
EvAppendIncreases ==
    \A k \in EvKeys :
        evLast' = EvCall("append_event", k, 0) =>
            \A b \in EvBackends :
              /\ evLog'[k][b] > evLog[k][b]
              /\ \A n \in EvHeld(b, EvStore(b), k) : evLog'[k][b] > n
              /\ evLog'[k][b] \in EvHeld(b, EvStore(b), k)'

\* C21: across appends and truncations on any mix of entities the sequences
\* given to the events of one (namespace, entity_id) strictly increase in
\* append order: no two events of an entity share a sequence, and a sequence
\* whose event was truncated is not given out again.
EvSequencesStrictlyIncrease == [][EvAppendIncreases]_vars

\* C21 witness: an entity whose first event was truncated away received its
\* second event, which is the only one it holds.
EvAppendAfterTruncateReached ==
    /\ evLast.op = "append_event"
    /\ evLog[evLast.key]["redb"] = 2
    /\ \A b \in EvBackends :
         EvHeld(b, EvStore(b), evLast.key) = {evLog[evLast.key][b]}

\* A step took events out of the log of entity k in backend b only as
\* truncate_events_before or compact on k, and a snapshot of k at or above
\* every sequence taken out is stored.
EvRemovalCovered ==
    \A b \in EvBackends, k \in EvKeys :
        LET removed == EvHeld(b, EvStore(b), k) \ EvHeld(b, EvStore(b), k)'
            snapshot == EventStore_load_snapshot(b, EvStore(b), k)'
        IN  removed # {} =>
              /\ evLast'.op \in {"truncate_events_before", "compact"}
              /\ evLast'.key = k
              /\ snapshot # NoSnapshot
              /\ \A n \in removed : snapshot.at_sequence >= n

\* C22: an event leaves an entity's log only through truncate_events_before
\* and only when a stored snapshot of that entity has at_sequence at or
\* above the event's sequence.
EvRemovedOnlyWhenSnapshotCovers == [][EvRemovalCovered]_vars

\* The members of a finite set of numbers in ascending order.
RECURSIVE Ascending(_)
Ascending(S) ==
    IF S = {} THEN <<>>
    ELSE LET least == CHOOSE n \in S : \A m \in S : n <= m
         IN  <<least>> \o Ascending(S \ {least})

\* In backend b, events_since(k, s) returns the events held for k with a
\* sequence above s, each once, in ascending order, as events of k.
EvEventsSinceExactOn(b) ==
    \A k \in EvKeys, s \in EvSequences :
        LET events == EventStore_events_since(b, EvStore(b), k, s)
        IN  /\ [i \in 1..Len(events) |-> events[i].sequence]
                 = Ascending({n \in EvHeld(b, EvStore(b), k) : n > s})
            /\ \A i \in 1..Len(events) :
                 /\ events[i].namespace = k[1]
                 /\ events[i].entity_id = k[2]
                 /\ events[i].data \in EvData
                 /\ events[i].timestamp = EvTimestamp
                 /\ events[i].node_id = EvNodeId

\* C24: events_since(ns, eid, s) returns exactly the events retained for
\* (ns, eid) with sequence above s, each once, in ascending sequence order,
\* and never an event of another namespace or entity.
EvEventsSinceExact == \A b \in EvBackends : EvEventsSinceExactOn(b)

\* The same for the memory store and sqlite alone.
EvEventsSinceExactMemorySqlite ==
    EvEventsSinceExactOn("memory") /\ EvEventsSinceExactOn("sqlite")

\* A step that was truncate_events_before(k, s) on backend b took out of
\* the log of k the events below s and no other, returned their number, and
\* left the events of the other entities, the snapshots and the state
\* entries as they were.
EvTruncateExactOn(b) ==
    \A k \in EvKeys, s \in EvSequences :
        evLast' = EvCall("truncate_events_before", k, s) =>
            LET held == EvHeld(b, EvStore(b), k)
            IN  /\ EvHeld(b, EvStore(b), k)' = {n \in held : n >= s}
                /\ EventStore_truncate_events_before(b, EvStore(b), k, s).ret
                     = Cardinality({n \in held : n < s})
                /\ \A other \in EvKeys \ {k} :
                     EvHeld(b, EvStore(b), other)' = EvHeld(b, EvStore(b), other)
                /\ EvStore(b).snapshots' = EvStore(b).snapshots
                /\ EvStore(b).state' = EvStore(b).state

\* C25: truncate_events_before(ns, eid, s) removes exactly the events of
\* (ns, eid) with sequence below s, returns how many it removed, and leaves
\* the events at or above s, the events of every other entity, all
\* snapshots and all state entries unchanged.
EvTruncateExact == [][\A b \in EvBackends : EvTruncateExactOn(b)]_vars

\* The same for the memory store and sqlite alone.
EvTruncateExactMemorySqlite ==
    [][EvTruncateExactOn("memory") /\ EvTruncateExactOn("sqlite")]_vars

\* A step that was compact(k, state, version) on backend b: when k held
\* events, the largest sequence being M, the snapshot of k is now
\* (state, M, version), k holds the event M alone and the call returned the
\* number of the others; when k held none the call returned 0 and the
\* snapshot of k is what it was.
EvCompactResultOn(b) ==
    \A k \in EvKeys, state \in EvCompactStates, version \in EvSnapshotVersions :
        evLast' = EvCall("compact", k, 0) =>
            LET held == EvHeld(b, EvStore(b), k)
                ret == Db_compact(b, EvStore(b), k, state, version).ret
            IN  IF held # {}
                THEN /\ EventStore_load_snapshot(b, EvStore(b), k)'
                          = Snapshot(state, MaxOf(held), version)
                     /\ EvHeld(b, EvStore(b), k)' = {MaxOf(held)}
                     /\ ret = Cardinality(held) - 1
                ELSE /\ ret = 0
                     /\ EventStore_load_snapshot(b, EvStore(b), k)'
                          = EventStore_load_snapshot(b, EvStore(b), k)
                     /\ EvHeld(b, EvStore(b), k)' = {}

\* C23: after compact(ns, eid, state, version) on an entity whose log is
\* non-empty with largest sequence M the stored snapshot is (state, M,
\* version), the log retains exactly the events with sequence >= M and the
\* returned number is the count of events removed; on an entity with no
\* events compact returns 0 and stores no snapshot.
EvCompactResult == [][\A b \in EvBackends : EvCompactResultOn(b)]_vars

\* The same for the memory store and sqlite alone.
EvCompactResultMemorySqlite ==
    [][EvCompactResultOn("memory") /\ EvCompactResultOn("sqlite")]_vars

\* ---- Migration engine

\* The number of registered steps whose source version is i.
EngineStepsFrom(engine, i) ==
    Cardinality({j \in 1..Len(engine.steps) : engine.steps[j].source = i})

\* C26 as stated: validate_chain(1) returns Ok if and only if, for every version i
\* from 1 to current_version - 1, exactly one registered step has source
\* version i.
EngineValidateChainExactlyOne ==
    LET engine == dbCfg.migration_engine
    IN  Engine_validate_chain(engine, 1)
          <=> \A i \in 1..(engine.current_version - 1) : EngineStepsFrom(engine, i) = 1

\* C26, amended: validate_chain(1) returns Ok if and only if every version
\* from 1 to current_version - 1 is the source of at least one registered
\* step; several steps with one source do not make it fail.
EngineValidateChainAtLeastOne ==
    LET engine == dbCfg.migration_engine
    IN  Engine_validate_chain(engine, 1)
          <=> \A i \in 1..(engine.current_version - 1) : EngineStepsFrom(engine, i) >= 1

\* C26 witness: validate_chain(1) passes an engine at version 2 that holds
\* two steps with source 1.
EngineDuplicateSourceValidReached ==
    LET engine == dbCfg.migration_engine
    IN  /\ engine.current_version = 2
        /\ EngineStepsFrom(engine, 1) = 2
        /\ Engine_validate_chain(engine, 1)

\* migrate_to_current of this engine on a value of version from.
EngineMigrated(engine, datum, from) ==
    Engine_migrate_to_current(engine, Serialize([datum |-> datum, version |-> from]), from)

\* The call ran the steps with sources from, from + 1, .. , current - 1 in
\* this order, the first on the input and each later one on the output of
\* the one before it, and returned the output of the last, a value of the
\* current version.
EngineRanLinearChain(engine, datum, from) ==
    LET r == EngineMigrated(engine, datum, from)
        n == Len(r.applied)
        Output(i) == Step_migrate(r.applied[i].step, r.applied[i].data).data
    IN  /\ n = engine.current_version - from
        /\ \A i \in 1..n :
             /\ r.applied[i].step.source = from + i - 1
             /\ r.applied[i].data =
                  IF i = 1 THEN Serialize([datum |-> datum, version |-> from])
                  ELSE Output(i - 1)
        /\ r.data = Output(n)
        /\ r.data = Serialize([datum |-> datum, version |-> engine.current_version])

\* C27: whenever migrate_to_current(data, from) succeeds with from below
\* current_version, the steps applied are those with source versions from,
\* from + 1, .., current_version - 1, each once and in ascending order
\* whatever the registration order, each fed the output of the previous
\* one: no version is skipped and the result is at current_version.
EngineLinearChain ==
    \A from \in DbVersions, datum \in DbData :
        LET engine == dbCfg.migration_engine
        IN  (from < engine.current_version /\ EngineMigrated(engine, datum, from).kind = "ok")
              => EngineRanLinearChain(engine, datum, from)

\* The same for the engines whose every step leads from its source to the
\* next version.
EngineLinearChainOfUnitSteps ==
    \A from \in DbVersions, datum \in DbData :
        LET engine == dbCfg.migration_engine
        IN  (/\ from < engine.current_version
             /\ EngineMigrated(engine, datum, from).kind = "ok"
             /\ \A j \in 1..Len(engine.steps) :
                  engine.steps[j].target = engine.steps[j].source + 1)
              => EngineRanLinearChain(engine, datum, from)

\* Following from version the first registered step of each version reached,
\* as long as the steps return Ok: <<v>> when this comes to a version v
\* below current_version that no step has for its source, <<>> when it
\* does not within fuel steps.
RECURSIVE EngineGapReached(_, _, _)
EngineGapReached(engine, version, fuel) ==
    IF fuel = 0 \/ version >= engine.current_version THEN <<>>
    ELSE LET from_version == {j \in 1..Len(engine.steps) : engine.steps[j].source = version}
         IN  IF from_version = {} THEN <<version>>
             ELSE LET first == engine.steps[CHOOSE j \in from_version :
                                               \A l \in from_version : j <= l]
                  IN  IF first.fails THEN <<>>
                      ELSE EngineGapReached(engine, first.target, fuel - 1)

\* C28: when migrate_to_current is called with from below current_version
\* and, walking up from `from` through the registered steps, reaches a
\* version v below current_version that has no registered step, it fails
\* with GapInChain{missing: v} and returns no data.
EngineGapReported ==
    \A from \in DbVersions, datum \in DbData :
        LET engine == dbCfg.migration_engine
            gap == EngineGapReached(engine, from, DbMaxVersion + 1)
            r == EngineMigrated(engine, datum, from)
        IN  (from < engine.current_version /\ gap # <<>>)
              => /\ r.kind = "err"
                 /\ r.err = "GapInChain"
                 /\ r.missing = gap[1]
                 /\ r.data = NoBytes

\* C28 witness: an engine at version 3 whose only step leads from 1 to 2;
\* migrating a version-1 value runs that step and fails at the missing
\* version 2.
EngineGapAfterStepReached ==
    LET engine == dbCfg.migration_engine
        r == EngineMigrated(engine, 7, 1)
    IN  /\ engine.current_version = 3
        /\ Len(engine.steps) = 1
        /\ engine.steps[1].source = 1 /\ engine.steps[1].target = 2
        /\ r.kind = "err" /\ r.err = "GapInChain" /\ r.missing = 2

\* C30: in the sequence Rga rebuilds, any two nodes with the same parent are
\* ordered with the larger counter first and, for equal counters, the
\* larger actor first.
RgaSiblingsCounterFirst ==
    \A r \in Actors :
        \A x \in DOMAIN rga[r].nodes : \A y \in DOMAIN rga[r].nodes :
            (/\ x # y
             /\ rga[r].nodes[x].parent = rga[r].nodes[y].parent
             /\ (x[2] > y[2] \/ (x[2] = y[2] /\ x[1] > y[1])))
              => Pos(rga[r].sequence, x) < Pos(rga[r].sequence, y)

\* What the sort does: of two nodes with the same parent the one with the
\* larger actor is first and, for one actor, the one with the larger counter.
RgaSiblingsActorFirst ==
    \A r \in Actors :
        \A x \in DOMAIN rga[r].nodes : \A y \in DOMAIN rga[r].nodes :
            (/\ x # y
             /\ rga[r].nodes[x].parent = rga[r].nodes[y].parent
             /\ IdLess(y, x))
              => Pos(rga[r].sequence, x) < Pos(rga[r].sequence, y)

\* ---- Concurrent appenders

\* The appenders that are inside append_event on backend b, past the
\* point where the write transaction or the lock is taken.
ApInside(b) ==
    {p \in Appenders :
        apProc[p].pc \in (IF b = "redb"
                          THEN {"redb_read_meta", "redb_insert_event",
                                "redb_update_meta", "redb_commit"}
                          ELSE {"sqlite_execute", "sqlite_rowid"})}

\* The sequences of the events backend b holds for the entity.
ApHeld(b) ==
    IF b = "redb"
    THEN {n \in 1..ApMaxCalls :
            Table_get(apStore.redb.events, Redb_event_key(ApKey[1], ApKey[2], n)) # {}}
    ELSE {r.sequence : r \in apStore.sqlite.events}

\* C29: concurrent appenders on one (ns, eid) of one durable backend are
\* serialized: reading the next sequence, inserting the event and advancing
\* the counter are one atomic step, at most one appender being between
\* them at a time, so under every interleaving the sequences returned are
\* pairwise distinct and strictly increasing in commit order, and each
\* belongs to a stored event.
ApAppendersSerialized ==
    \A b \in {"redb", "sqlite"} :
        /\ Cardinality(ApInside(b)) <= 1
        /\ \A i \in 1..Len(apLog[b]) : \A j \in 1..Len(apLog[b]) :
             i < j => apLog[b][i][2] < apLog[b][j][2]
        /\ LET returned == {apLog[b][i][2] : i \in 1..Len(apLog[b])}
           IN  /\ returned \subseteq ApHeld(b)
               /\ Cardinality(ApHeld(b) \ returned) <= Cardinality(ApInside(b))

\* C29 witness: the two appenders have each had an append on redb
\* committed, and one of them holds the sqlite connection, its row
\* inserted, after the other's sqlite append returned.
ApInterleavedReached ==
    /\ Len(apLog["redb"]) = 2
    /\ apLog["redb"][1][1] # apLog["redb"][2][1]
    /\ Len(apLog["sqlite"]) = 1
    /\ \E p \in Appenders :
         apProc[p].pc = "sqlite_rowid" /\ apLog["sqlite"][1][1] # p

\* ---- MV-Register: is_conflicted

\* C36 as stated: in every reachable MV-Register state is_conflicted() is
\* true exactly when values() returns more than one value.
MvConflictedIffManyValues ==
    \A a \in Actors : MV_is_conflicted(mv[a]) <=> Cardinality(MV_values(mv[a])) > 1

\* C36, amended: is_conflicted() is true exactly when the register holds
\* the entries of more than one write (entries with different version
\* vectors); values() returning more than one value implies it, but it is
\* also true when the concurrent writes held set equal values and values()
\* returns one.
MvConflictedIffManyEntries ==
    \A a \in Actors :
        /\ MV_is_conflicted(mv[a])
             <=> Cardinality({mv[a].entries[i].vv : i \in 1..Len(mv[a].entries)}) > 1
        /\ Cardinality(MV_values(mv[a])) > 1 => MV_is_conflicted(mv[a])

\* C36 witness: a replica holds two concurrent writes of one value:
\* is_conflicted() is true and values() returns a single value.
MvConflictedOneValueReached ==
    \E a \in Actors :
        /\ Len(mv[a].entries) = 2
        /\ MV_is_conflicted(mv[a])
        /\ Cardinality(MV_values(mv[a])) = 1

\* ---- Rga: tombstones

\* The ids a replica shows: those of visible_sequence, which get, len,
\* iter and to_vec read.
RgaVisibleIds(r) == {Rga_visible_sequence(r)[i] : i \in 1..Len(Rga_visible_sequence(r))}

\* C38: an Rga node is tombstoned at most once and for good: no insert,
\* remove or merge takes an id out of a replica's tombstone set, a remove
\* adds at most one id, which was visible and not yet tombstoned, a merge
\* leaves the replica with every tombstone of the state it merged, and a
\* tombstoned id is never among the visible ids of the replica.
RgaTombstonesPermanent ==
    [][\A a \in Actors :
         /\ rga[a].tombstones \subseteq rga'[a].tombstones
         /\ rga'[a].tombstones \cap RgaVisibleIds(rga'[a]) = {}
         /\ \A index \in 0..Rga_len(rga[a]) :
              rga'[a] = Rga_remove(rga[a], index)
                => /\ rga'[a].tombstones \ rga[a].tombstones \subseteq RgaVisibleIds(rga[a])
                   /\ Cardinality(rga'[a].tombstones \ rga[a].tombstones) <= 1
         /\ \A b \in Actors \ {a} :
              rga'[a] = Rga_merge(rga[a], rga[b])
                => rga[b].tombstones \subseteq rga'[a].tombstones]_vars

\* C38 witness: a replica holds, through a merge, the tombstone of a node
\* that another replica removed, after a further merge with a replica
\* that still shows the node.
RgaTombstoneMergedReached ==
    \E a \in Actors : \E b \in Actors \ {a}, id \in RgaAllNodes :
        /\ id \in rga[a].tombstones
        /\ id \in DOMAIN rga[a].nodes
        /\ id \in rga[b].tombstones
        /\ \E c \in Actors \ {a, b} :
             /\ id \in RgaVisibleIds(rga[c])
             /\ rga[a] = Rga_merge(rga[a], rga[c])
             /\ rga[a].nodes # rga[b].nodes

\* ---- Rga: the parent graph

\* C39: in every reachable Rga state each node's parent is none or a node
\* of the same replica with a strictly smaller counter (so that following
\* parents ends at the head), and the rebuilt sequence holds every node of
\* the replica exactly once.
RgaParentsWellFounded ==
    \A a \in Actors :
        /\ \A id \in DOMAIN rga[a].nodes :
             LET parent == rga[a].nodes[id].parent
             IN  \/ parent = NoId
                 \/ /\ parent \in DOMAIN rga[a].nodes
                    /\ parent[2] < id[2]
        /\ Len(rga[a].sequence) = Cardinality(DOMAIN rga[a].nodes)
        /\ {rga[a].sequence[i] : i \in 1..Len(rga[a].sequence)} = DOMAIN rga[a].nodes
        /\ \A id \in DOMAIN rga[a].nodes : id[2] <= rga[a].counter

\* C39 witness: a replica holds a chain of three nodes of two actors, each
\* the child of the one before, the middle one received by a merge.
RgaParentChainReached ==
    \E a \in Actors : \E b \in Actors \ {a} :
      \E x \in DOMAIN rga[a].nodes, y \in DOMAIN rga[a].nodes, z \in DOMAIN rga[a].nodes :
        /\ x[1] = a /\ y[1] = b /\ z[1] = a
        /\ rga[a].nodes[x].parent = NoId
        /\ rga[a].nodes[y].parent = x
        /\ rga[a].nodes[z].parent = y
        /\ Len(rga[a].sequence) = 3

\* ---- ORSet: live tags and tombstones

\* The tags live under some element of a replica.
OrsLive(r) == UNION {r.elements[v] : v \in OrsValues}

\* The deltas that carry one tag both as an addition and as a tombstone;
\* the tag is any that an actor of the model can create.
OrsDeltasWithTagInBoth ==
    {[additions  |-> [v \in OrsValues |-> IF v = x THEN {tag} ELSE {}],
      tombstones |-> {tag}] :
        x \in OrsValues, tag \in Actors \X (1..OrsMaxInserts)}

\* C40: in every reachable OR-Set state no tag is both live under some
\* element and in the tombstone set, and applying a delta that carries a
\* tag both in its additions and in its tombstones leaves that tag
\* tombstoned and not live.
OrsLiveTombstonesDisjoint ==
    \A a \in Actors :
        /\ OrsLive(ors[a]) \cap ors[a].tombstones = {}
        /\ \A delta \in OrsDeltasWithTagInBoth :
             LET after == ORSet_apply_delta(ors[a], delta)
             IN  /\ delta.tombstones \subseteq after.tombstones
                 /\ OrsLive(after) \cap after.tombstones = {}

\* C40 witness: a replica that holds a live tag and a tombstone receives a
\* delta carrying, in both parts, a tag it has not seen.
OrsDeltaTagInBothReached ==
    \E a \in Actors, delta \in OrsDeltasWithTagInBoth :
        /\ OrsLive(ors[a]) # {}
        /\ ors[a].tombstones # {}
        /\ delta.tombstones \cap OrsSeen(ors[a]) = {}
        /\ ORSet_apply_delta(ors[a], delta).tombstones # ors[a].tombstones

\* ---- HybridClock: the 16-bit logical component

\* C34: the 16-bit logical component never wraps: in every reachable clock
\* state, for every reading of the time source and every remote timestamp
\* (one with logical 65535 included), the  + 1  of now() and of receive()
\* is evaluated on an operand below 65535, so that no call panics or
\* returns a logical component that is not its operand plus one.
HlcLogicalNeverWraps ==
    /\ ~hlcPanicked
    /\ \A pt \in HlcTimes :
         /\ ~Hlc_now_overflows(hlc, pt)
         /\ pt <= hlc.last.physical => Hlc_now(hlc, pt).last.logical = hlc.last.logical + 1
         /\ \A remote \in HlcRemotes :
              /\ ~Hlc_receive_overflows(hlc, remote, pt)
              /\ Hlc_receive_operand(hlc, remote, pt) # -1
                   => Hlc_receive(hlc, remote, pt).last.logical
                        = Hlc_receive_operand(hlc, remote, pt) + 1

\* ---- MigrationEngine: termination

\* C33: migrate_to_current terminates for every set of registered steps and
\* every from version, whatever source and target versions the steps
\* declare: each step the loop applies leaves the tracked version strictly
\* closer to current_version than it was.
EngineMigrateTerminates ==
    \A from \in DbVersions, datum \in DbData :
        LET engine == dbCfg.migration_engine
            r      == EngineMigrated(engine, datum, from)
        IN  /\ r.kind # "diverges"
            /\ \A i \in 1..Len(r.applied) :
                 /\ r.applied[i].version < r.applied[i].step.target
                 /\ r.applied[i].step.target <= engine.current_version

\* ---- The facade: the version byte of a write-back

\* The version the engine's loop ended at: the target of the last step it
\* ran, the version it was given when it ran none.
EngineVersionReached(r, from) ==
    IF r.applied = <<>> THEN from ELSE r.applied[Len(r.applied)].step.target

\* C35: the version byte of an envelope written back by a migrating load
\* equals the schema version the engine migrated the payload to, for every
\* combination of the loaded type's SCHEMA_VERSION and the engine's
\* current_version.
DbWriteBackVersionIsMigrated ==
    (/\ dbLast.op = "load"
     /\ ~dbLast.getFails
     /\ ~dbLast.putFails
     /\ dbCfg.write_back_on_read
     /\ DbInvokesEngine(dbCfg, dbLast.before, dbLast.schema_version)
     /\ DbEngineOutcome(dbCfg, dbLast.before).kind = "ok") =>
        /\ DbStoredEnvelope(dbStore) # NoEnvelope
        /\ DbStoredEnvelope(dbStore).version =
             EngineVersionReached(DbEngineOutcome(dbCfg, dbLast.before),
                                  DbStoredEnvelope(dbLast.before).version)

\* ---- CrdtDb::compact with a failing backend call

\* A compact on entity k whose backend call numbered failing failed left,
\* in backend b, the events of every entity as they were; when the failing
\* call was events_since or save_snapshot the snapshots are as they were
\* too, and when it was truncate_events_before the backend is what
\* save_snapshot at the largest sequence made of it.
EvCompactFailedOn(b, k, failing) ==
    LET max_seq == Db_compact_max_seq(b, EvStore(b), k)
    IN  /\ EvStore(b).events' = EvStore(b).events
        /\ EvStore(b).state' = EvStore(b).state
        /\ (failing \in {1, 2} \/ max_seq = 0) => EvStore(b)' = EvStore(b)
        /\ (failing = 3 /\ max_seq # 0) =>
             \E state \in EvCompactStates, version \in EvSnapshotVersions :
                EvStore(b)' = EventStore_save_snapshot(b, EvStore(b), k, state, max_seq, version)

\* C37: compact is failure-safe: whichever backend call inside compact
\* fails (reading the events, saving the snapshot, truncating), no event
\* has left the log; a failed events_since or save_snapshot leaves log and
\* snapshots untouched, a failed truncation leaves the snapshot at the
\* largest sequence stored over the untouched log; and in a compact that
\* succeeds every event that left the entity's log has a sequence at or
\* below the at_sequence of the snapshot the call stored first.
EvCompactFailureSafe ==
    [][\A b \in EvBackends, k \in EvKeys :
         /\ \A failing \in CompactCalls :
              evLast' = EvCall("compact_failed", k, failing) => EvCompactFailedOn(b, k, failing)
         /\ evLast' = EvCall("compact", k, 0) =>
              \A n \in EvHeld(b, EvStore(b), k) \ EvHeld(b, EvStore(b), k)' :
                 /\ n <= Db_compact_max_seq(b, EvStore(b), k)
                 /\ \E state \in EvCompactStates, version \in EvSnapshotVersions :
                      EvStore(b).snapshots' =
                        EventStore_save_snapshot(b, EvStore(b), k, state,
                            Db_compact_max_seq(b, EvStore(b), k), version).snapshots]_vars

\* C37 witness: a compact failed at its truncation on a log of two events:
\* every backend holds both events and the snapshot at sequence 2.
EvCompactFailedAtTruncateReached ==
    \E k \in EvKeys :
        /\ evLast = EvCall("compact_failed", k, 3)
        /\ \A b \in EvBackends :
             /\ EvHeld(b, EvStore(b), k) = {1, 2}
             /\ EventStore_load_snapshot(b, EvStore(b), k).at_sequence = 2

\* ---- Concurrent compactions

\* The sequences of the events the shared file holds for the entity.
CcHeld == EvHeld("sqlite", sqliteStore, CcKey)

\* The at_sequence of the entity's stored snapshot, 0 without one.
CcAtSequence == Sqlite_load_snapshot(sqliteStore, CcKey).at_sequence

\* C31: under any interleaving of the backend calls of concurrent
\* append_event and compact invocations on one entity, every event ever
\* appended is still in the log or has a sequence at or below the
\* at_sequence of the stored snapshot, and the stored at_sequence never
\* decreases.
CcEventsCoveredAndSnapshotMonotonic ==
    [][/\ \A n \in cc.appended' : n \in CcHeld' \/ n <= CcAtSequence'
       /\ CcAtSequence' >= CcAtSequence]_vars

\* The first half of C31: every event ever appended is still in the log or
\* at or below the stored at_sequence.
CcEventsCovered ==
    \A n \in cc.appended : n \in CcHeld \/ n <= CcAtSequence

\* ---- Two facades over one backend: write-back

\* C32: no lost update through write-back: when two facades share one
\* backend, the write-back of a migrating load never replaces a value that
\* the other facade saved under the key after that load read the old bytes.
WbNoLostUpdate ==
    [][\A p \in Facades :
         (/\ wbFacade.proc[p].pc = "loaded"
          /\ wbFacade'.proc[p].pc = "idle"
          /\ Db_load_ns_rest(dbCfg, wbFacade.proc[p].raw, WbSchemaVersion).put # <<>>)
            => ~wbFacade.proc[p].stale]_vars

=============================================================================
